---- MODULE Spec2Model ----
(***************************************************************************)
(* Workflow management tool: the in-memory workflow store, the node status *)
(* state machine, the permission guard and the round-based execution       *)
(* engine of app/services, as a state machine.                             *)
(*                                                                         *)
(* A Python function is one operator, or a short chain of operators in     *)
(* which each link takes the value the function has computed so far as a   *)
(* parameter and continues from that point of its body.                    *)
(***************************************************************************)
EXTENDS Integers, Sequences, FiniteSets, TLC

VARIABLES workflows_db, next_workflow_id, next_node_id, users_db,
          workflow_permissions_db, ret, calls

vars == <<workflows_db, next_workflow_id, next_node_id, users_db,
          workflow_permissions_db, ret, calls>>

-----------------------------------------------------------------------------
(* Bounds of the model and the input domains the actions draw from.        *)

\* add_node_to_workflow is called while next_node_id <= MaxNodes (the engine
\* specifications) or <= StatusMaxNodes, MessageMaxNodes, AddMaxNodes,
\* GuardMaxNodes (the others)
MaxNodes == 3

StatusMaxNodes == 3

MessageMaxNodes == 3

AddMaxNodes == 3

RaceMaxNodes == 2

GuardMaxNodes == 2

\* nodes of the workflow in the specification of the grant store
StoreMaxNodes == 1

\* nodes of the workflow in the specification of the statistics
StatsMaxNodes == 3

\* the workflow ids of the specification of add_node_to_workflow
AddWorkflowIds == {1, 2}

\* user data given to create_user: the name of the default admin, a new user,
\* and another name with the new user's email
UserInputs ==
  {[username |-> "admin", email |-> "root@example.com"],
   [username |-> "alice", email |-> "alice@example.com"],
   [username |-> "al", email |-> "alice@example.com"]}

\* role ids given to assign_role_to_user: admin, viewer and one of no role
AssignRoleIds == {1, 3, 4}

\* users whose grants change in the specification of the permission checks
AccessGranteeIds == {2}

\* workflow ids the permission checks are asked about
CheckWorkflowIds == {1, 2}

\* owners, read_roles and write_roles given to create_workflow in the
\* specification of role-based access: the owner is the default admin (as in
\* tests/test_permissions.py), the lists are left out or name a role of
\* roles_db
RoleOwnerIds == {1}

ReadRoleLists == {<<>>, <<"viewer">>}

WriteRoleLists == {<<>>, <<"user">>}

\* the user whose grants change in that specification
RoleGranteeIds == {2}

\* the callers whose execute_workflow calls may be in flight together
Callers == {1, 2}

\* node types and triggers of those calls: a CONDITION node fails without a
\* trigger and passes with John's
RaceTypes == {"INIT", "CONDITION"}

RaceTriggers ==
  {[present |-> FALSE],
   [present |-> TRUE, userId |-> "John", type |-> "user-message", message |-> "Hi"]}

\* the workflow ids create_workflow hands out in the model
WorkflowIds == {1}

\* owners given to create_workflow
OwnerIds == {2}

\* actors: 1 is the default admin of users_db, 2 the owner, 3 holds nothing
\* unless granted
ActorIds == {1, 2, 3}

EngineActorIds == {2, 3}

\* users that grant_workflow_permission and revoke_workflow_permission name
GranteeIds == {3}

\* capabilities given to grant and revoke: the three legal ones and one other
GrantInputs == {"read", "write", "execute", "admin"}

\* node types given to add_node_to_workflow
EngineTypes == {"INIT", "CONDITION", "MODIFY_MESSAGE"}

ManualTypes == {"INIT", "CONDITION"}

StatusTypes == {"GENERIC"}

\* every node type with a branch in execute_node, and one with none
MessageTypes == {"INIT", "CONDITION", "MODIFY_MESSAGE", "STORE_MESSAGE", "GENERIC"}

GuardTypes == {"INIT", "STORE_MESSAGE"}

NoTrigger == [present |-> FALSE]

Triggers ==
  {NoTrigger} \cup
  {[present |-> TRUE, userId |-> u, type |-> "user-message", message |-> "Hi"] :
     u \in {"John", "Alice"}}

-----------------------------------------------------------------------------
(* app/utils/enums.py *)

PENDING == "Pending"
IN_PROGRESS == "In Progress"
COMPLETED == "Completed"
REJECTED == "Rejected"

NodeStatus == {PENDING, IN_PROGRESS, COMPLETED, REJECTED}

-----------------------------------------------------------------------------
(* Sequence helpers standing for Python's list operations.                 *)

Range(s) == {s[i] : i \in 1..Len(s)}

\* [x for x in s if x.id != id]
RECURSIVE RemoveId(_, _)
RemoveId(s, id) ==
  IF s = <<>> THEN <<>>
  ELSE IF Head(s).id = id THEN RemoveId(Tail(s), id)
  ELSE <<Head(s)>> \o RemoveId(Tail(s), id)

\* list.remove(x): the list without its first x
RECURSIVE RemoveFirst(_, _)
RemoveFirst(s, x) ==
  IF s = <<>> THEN <<>>
  ELSE IF Head(s) = x THEN Tail(s)
  ELSE <<Head(s)>> \o RemoveFirst(Tail(s), x)

\* the ascending list of the members of a finite set of integers
RECURSIVE SortedSeq(_)
SortedSeq(S) ==
  IF S = {} THEN <<>>
  ELSE <<CHOOSE x \in S : \A y \in S : x <= y>>
       \o SortedSeq(S \ {CHOOSE x \in S : \A y \in S : x <= y})

\* dependency lists given to add_node_to_workflow: ascending lists of ids
DepLists(ids) == {SortedSeq(S) : S \in SUBSET ids}

\* dependency lists of at most two ids, in any order
DepSeqs(ids) == {<<>>} \cup {<<a>> : a \in ids} \cup {<<a, b>> : a \in ids, b \in ids}

\* d with key k set to v (a dict assignment)
Put(d, k, v) == [x \in DOMAIN d \cup {k} |-> IF x = k THEN v ELSE d[x]]

-----------------------------------------------------------------------------
(* app/services/auth_service.py *)

roles_db ==
  [r \in {1, 2, 3} |->
     CASE r = 1 -> [id |-> 1, name |-> "admin",
                    permissions |-> {"read", "write", "execute", "admin"}]
       [] r = 2 -> [id |-> 2, name |-> "user", permissions |-> {"read", "write"}]
       [] r = 3 -> [id |-> 3, name |-> "viewer", permissions |-> {"read"}]]

default_admin ==
  [id |-> 1, email |-> "admin@example.com", username |-> "admin", roles |-> <<1>>]

\* next((r for r in roles_db if r.name == "user"), roles_db[1])
default_role == CHOOSE r \in DOMAIN roles_db : roles_db[r].name = "user"

\* the index of the first user with that id, as a list of at most one
UserIndex(users, user_id) ==
  IF \E i \in 1..Len(users) : users[i].id = user_id
  THEN <<CHOOSE i \in 1..Len(users) :
            /\ users[i].id = user_id
            /\ \A j \in 1..(i - 1) : users[j].id # user_id>>
  ELSE <<>>

\* the first user with that id, as a list of at most one user
get_user_by_id(users, user_id) ==
  IF \E i \in 1..Len(users) : users[i].id = user_id
  THEN <<users[CHOOSE i \in 1..Len(users) :
                  /\ users[i].id = user_id
                  /\ \A j \in 1..(i - 1) : users[j].id # user_id]>>
  ELSE <<>>

\* only the first role of the user is looked at
RolesGrantFirstRole(found, required_permission) ==
  IF found = <<>> THEN FALSE
  ELSE found[1].roles # <<>>
       /\ required_permission \in roles_db[found[1].roles[1]].permissions

RolesGrant(found, required_permission) ==
  IF found = <<>> THEN FALSE
  ELSE \E i \in 1..Len(found[1].roles) :
         required_permission \in roles_db[found[1].roles[i]].permissions

validate_user_role(users, user_id, required_permission) ==
  RolesGrant(get_user_by_id(users, user_id), required_permission)

-----------------------------------------------------------------------------
(* app/services/workflow_service.py: lookups *)

\* the index of the first workflow with that id, as a list of at most one
get_workflow_by_id(wfs, workflow_id) ==
  IF \E i \in 1..Len(wfs) : wfs[i].id = workflow_id
  THEN <<CHOOSE i \in 1..Len(wfs) :
            /\ wfs[i].id = workflow_id
            /\ \A j \in 1..(i - 1) : wfs[j].id # workflow_id>>
  ELSE <<>>

\* next((n for n in nodes if n.id == node_id), None), as an index list
NodeIndex(nodes, node_id) ==
  IF \E i \in 1..Len(nodes) : nodes[i].id = node_id
  THEN <<CHOOSE i \in 1..Len(nodes) :
            /\ nodes[i].id = node_id
            /\ \A j \in 1..(i - 1) : nodes[j].id # node_id>>
  ELSE <<>>

NodeIds(nodes) == {nodes[i].id : i \in 1..Len(nodes)}

-----------------------------------------------------------------------------
(* app/services/permission_service.py: the checks *)

\* workflow_permissions_db.get(workflow_id, {}).get(user_id, [])
user_perms(perms, workflow_id, user_id) ==
  IF workflow_id \in DOMAIN perms /\ user_id \in DOMAIN perms[workflow_id]
  THEN perms[workflow_id][user_id]
  ELSE <<>>

OwnerAt(wfs, w, user_id) == w # <<>> /\ wfs[w[1]].owner_id = user_id

\* workflow and workflow.owner_id == user_id
IsOwner(wfs, user_id, workflow_id) ==
  OwnerAt(wfs, get_workflow_by_id(wfs, workflow_id), user_id)

HoldsAny(held, capabilities) == \E c \in capabilities : c \in Range(held)

\* check_read_permission that also accepts a role carrying "read"
check_read_permission_by_role(wfs, users, perms, user_id, workflow_id) ==
  IF IsOwner(wfs, user_id, workflow_id) THEN TRUE
  ELSE IF validate_user_role(users, user_id, "admin") THEN TRUE
  ELSE IF validate_user_role(users, user_id, "read") THEN TRUE
  ELSE HoldsAny(user_perms(perms, workflow_id, user_id), {"read", "write"})

check_read_permission(wfs, users, perms, user_id, workflow_id) ==
  IF IsOwner(wfs, user_id, workflow_id) THEN TRUE
  ELSE IF validate_user_role(users, user_id, "admin") THEN TRUE
  ELSE HoldsAny(user_perms(perms, workflow_id, user_id), {"read", "write"})

\* check_write_permission with the capability test of check_read_permission
check_write_permission_as_read(wfs, users, perms, user_id, workflow_id) ==
  IF IsOwner(wfs, user_id, workflow_id) THEN TRUE
  ELSE IF validate_user_role(users, user_id, "admin") THEN TRUE
  ELSE HoldsAny(user_perms(perms, workflow_id, user_id), {"read", "write"})

check_write_permission(wfs, users, perms, user_id, workflow_id) ==
  IF IsOwner(wfs, user_id, workflow_id) THEN TRUE
  ELSE IF validate_user_role(users, user_id, "admin") THEN TRUE
  ELSE HoldsAny(user_perms(perms, workflow_id, user_id), {"write"})

\* check_execute_permission without the owner's shortcut
check_execute_permission_no_owner(wfs, users, perms, user_id, workflow_id) ==
  IF validate_user_role(users, user_id, "admin") THEN TRUE
  ELSE IF validate_user_role(users, user_id, "execute")
       THEN check_read_permission(wfs, users, perms, user_id, workflow_id)
  ELSE HoldsAny(user_perms(perms, workflow_id, user_id), {"execute"})

check_execute_permission(wfs, users, perms, user_id, workflow_id) ==
  IF IsOwner(wfs, user_id, workflow_id) THEN TRUE
  ELSE IF validate_user_role(users, user_id, "admin") THEN TRUE
  ELSE IF validate_user_role(users, user_id, "execute")
       THEN check_read_permission(wfs, users, perms, user_id, workflow_id)
  ELSE HoldsAny(user_perms(perms, workflow_id, user_id), {"execute"})

-----------------------------------------------------------------------------
(* app/services/permission_service.py: the grant store *)

GrantTo(perms, workflow_id, user_id, permission) ==
  IF permission \in Range(perms[workflow_id][user_id]) THEN perms
  ELSE Put(perms, workflow_id,
           Put(perms[workflow_id], user_id,
               Append(perms[workflow_id][user_id], permission)))

WithUser(perms, workflow_id, user_id) ==
  IF user_id \in DOMAIN perms[workflow_id] THEN perms
  ELSE Put(perms, workflow_id, Put(perms[workflow_id], user_id, <<>>))

WithWorkflow(perms, workflow_id) ==
  IF workflow_id \in DOMAIN perms THEN perms ELSE Put(perms, workflow_id, <<>>)

\* grant_workflow_permission that makes the entries before it looks at the
\* capability
grant_workflow_permission_entries_first(perms, workflow_id, user_id, permission) ==
  IF permission \notin {"read", "write", "execute"}
  THEN [value |-> FALSE,
        perms |-> WithUser(WithWorkflow(perms, workflow_id), workflow_id, user_id)]
  ELSE [value |-> TRUE,
        perms |-> GrantTo(WithUser(WithWorkflow(perms, workflow_id),
                                   workflow_id, user_id),
                          workflow_id, user_id, permission)]

grant_workflow_permission(perms, workflow_id, user_id, permission) ==
  IF permission \notin {"read", "write", "execute"}
  THEN [value |-> FALSE, perms |-> perms]
  ELSE [value |-> TRUE,
        perms |-> GrantTo(WithUser(WithWorkflow(perms, workflow_id),
                                   workflow_id, user_id),
                          workflow_id, user_id, permission)]

\* revoke_workflow_permission that empties the user's list
revoke_workflow_permission_clears(perms, workflow_id, user_id, permission) ==
  IF permission \in Range(user_perms(perms, workflow_id, user_id))
  THEN [value |-> TRUE,
        perms |-> Put(perms, workflow_id,
                      Put(perms[workflow_id], user_id, <<>>))]
  ELSE [value |-> FALSE, perms |-> perms]

revoke_workflow_permission(perms, workflow_id, user_id, permission) ==
  IF permission \in Range(user_perms(perms, workflow_id, user_id))
  THEN [value |-> TRUE,
        perms |-> Put(perms, workflow_id,
                      Put(perms[workflow_id], user_id,
                          RemoveFirst(perms[workflow_id][user_id], permission)))]
  ELSE [value |-> FALSE, perms |-> perms]

\* AuthService.get_user_permissions: the permissions of the user's roles
get_user_permissions(users, user_id) ==
  UNION {roles_db[r].permissions :
           r \in UNION {Range(get_user_by_id(users, user_id)[i].roles) :
                          i \in 1..Len(get_user_by_id(users, user_id))}}

\* user_perms.append("execute") on the list the lookup returned: the stored
\* list when the user has an entry, a fresh [] otherwise
AppendExecute(perms, workflow_id, user_id) ==
  IF workflow_id \in DOMAIN perms /\ user_id \in DOMAIN perms[workflow_id]
  THEN [value |-> Range(perms[workflow_id][user_id]) \cup {"execute"},
        perms |-> Put(perms, workflow_id,
                      Put(perms[workflow_id], user_id,
                          Append(perms[workflow_id][user_id], "execute")))]
  ELSE [value |-> {"execute"}, perms |-> perms]

\* get_user_workflow_permissions without the early return for an admin
get_user_workflow_permissions_no_admin(wfs, users, perms, user_id, workflow_id) ==
  IF IsOwner(wfs, user_id, workflow_id)
  THEN [value |-> {"read", "write", "execute"}, perms |-> perms]
  ELSE IF /\ "execute" \in get_user_permissions(users, user_id)
          /\ HoldsAny(user_perms(perms, workflow_id, user_id), {"read", "write"})
  THEN AppendExecute(perms, workflow_id, user_id)
  ELSE [value |-> Range(user_perms(perms, workflow_id, user_id)),
        perms |-> perms]

\* get_user_workflow_permissions: value is the returned list as a set (the
\* code returns list(set(...))), perms the grant store after the call
get_user_workflow_permissions(wfs, users, perms, user_id, workflow_id) ==
  IF IsOwner(wfs, user_id, workflow_id)
  THEN [value |-> {"read", "write", "execute"}, perms |-> perms]
  ELSE IF validate_user_role(users, user_id, "admin")
  THEN [value |-> {"read", "write", "execute"}, perms |-> perms]
  ELSE IF /\ "execute" \in get_user_permissions(users, user_id)
          /\ HoldsAny(user_perms(perms, workflow_id, user_id), {"read", "write"})
  THEN AppendExecute(perms, workflow_id, user_id)
  ELSE [value |-> Range(user_perms(perms, workflow_id, user_id)),
        perms |-> perms]

\* get_workflow_users_with_permissions: workflow_permissions_db.get(id, {})
get_workflow_users_with_permissions(perms, workflow_id) ==
  IF workflow_id \in DOMAIN perms THEN perms[workflow_id] ELSE <<>>

-----------------------------------------------------------------------------
(* app/services/workflow_service.py: the node status state machine *)

\* the dependencies of a node, in list order, that are missing from the
\* workflow or not COMPLETED
UnmetAt(nodes, found) == found = <<>> \/ nodes[found[1]].status # COMPLETED

UnmetDeps(nodes, deps) ==
  SelectSeq(deps, LAMBDA d : UnmetAt(nodes, NodeIndex(nodes, d)))

DependencyError(dep_id) ==
  "Cannot update node status: dependency " \o ToString(dep_id) \o " is not completed"

Returned(value, wfs) ==
  [raised |-> FALSE, value |-> value, error |-> "", wfs |-> wfs]

\* the status written before the dependencies are looked at
GuardedWriteEarly(wfs, wi, ni, status, unmet) ==
  IF unmet # <<>>
  THEN [raised |-> TRUE, value |-> FALSE, error |-> DependencyError(unmet[1]),
        wfs |-> [wfs EXCEPT ![wi].nodes[ni].status = status]]
  ELSE Returned(TRUE, [wfs EXCEPT ![wi].nodes[ni].status = status])

\* the dependency guard and the status write
GuardedWrite(wfs, wi, ni, status, unmet) ==
  IF unmet # <<>>
  THEN [raised |-> TRUE, value |-> FALSE, error |-> DependencyError(unmet[1]),
        wfs |-> wfs]
  ELSE Returned(TRUE, [wfs EXCEPT ![wi].nodes[ni].status = status])

UpdateNodeAt(wfs, wi, n, status) ==
  IF n = <<>> THEN Returned(FALSE, wfs)
  ELSE GuardedWrite(wfs, wi, n[1], status,
                    IF status # PENDING
                    THEN UnmetDeps(wfs[wi].nodes, wfs[wi].nodes[n[1]].dependencies)
                    ELSE <<>>)

UpdateNodeIn(wfs, w, node_id, status) ==
  IF w = <<>> THEN Returned(FALSE, wfs)
  ELSE UpdateNodeAt(wfs, w[1], NodeIndex(wfs[w[1]].nodes, node_id), status)

\* update_node_status: value is the returned bool; raised tells that the
\* ValueError of the dependency guard left the call instead
update_node_status(wfs, workflow_id, node_id, status) ==
  UpdateNodeIn(wfs, get_workflow_by_id(wfs, workflow_id), node_id, status)

-----------------------------------------------------------------------------
(* app/services/workflow_service.py: execute_workflow.execute_node *)

ConditionError(username) ==
  "Condition failed: username '" \o username \o "' is not 'John'"

Passed(message, flow) ==
  [failed |-> FALSE, error |-> "", message |-> message, flow |-> flow]

\* the CONDITION check passing every trigger that carries an identity
ConditionNodeAnyIdentity(message, username) ==
  IF username = ""
  THEN [failed |-> TRUE, error |-> ConditionError(username),
        message |-> message, flow |-> <<>>]
  ELSE Passed(message, <<>>)

ConditionNode(message, username) ==
  IF username # "John"
  THEN [failed |-> TRUE, error |-> ConditionError(username),
        message |-> message, flow |-> <<>>]
  ELSE Passed(message, <<>>)

\* execute_node with MODIFY_MESSAGE appending "Hello" without the space
NodeBehaviourNoSpace(type, node_id, message, trigger, user_id) ==
  IF type = "INIT" THEN Passed(message, <<>>)
  ELSE IF type = "CONDITION"
  THEN ConditionNode(message, IF trigger.present THEN trigger.userId ELSE "")
  ELSE IF type = "MODIFY_MESSAGE" THEN Passed(message \o "Hello", <<>>)
  ELSE IF type = "STORE_MESSAGE"
  THEN Passed(message,
              <<[node_id |-> node_id, action |-> "stored",
                 data |-> [userId |-> IF trigger.present
                                      THEN <<"trigger", trigger.userId>>
                                      ELSE <<"actor", user_id>>,
                           type |-> "user-message",
                           message |-> message]]>>)
  ELSE Passed(message, <<>>)

\* execute_node with STORE_MESSAGE storing the executing actor whatever the
\* trigger
NodeBehaviourStoresActor(type, node_id, message, trigger, user_id) ==
  IF type = "INIT" THEN Passed(message, <<>>)
  ELSE IF type = "CONDITION"
  THEN ConditionNode(message, IF trigger.present THEN trigger.userId ELSE "")
  ELSE IF type = "MODIFY_MESSAGE" THEN Passed(message \o " Hello", <<>>)
  ELSE IF type = "STORE_MESSAGE"
  THEN Passed(message,
              <<[node_id |-> node_id, action |-> "stored",
                 data |-> [userId |-> <<"actor", user_id>>,
                           type |-> "user-message",
                           message |-> message]]>>)
  ELSE Passed(message, <<>>)

\* the type-specific part of execute_node: failed tells that it raised
NodeBehaviour(type, node_id, message, trigger, user_id) ==
  IF type = "INIT" THEN Passed(message, <<>>)
  ELSE IF type = "CONDITION"
  THEN ConditionNode(message, IF trigger.present THEN trigger.userId ELSE "")
  ELSE IF type = "MODIFY_MESSAGE" THEN Passed(message \o " Hello", <<>>)
  ELSE IF type = "STORE_MESSAGE"
  THEN Passed(message,
              <<[node_id |-> node_id, action |-> "stored",
                 data |-> [userId |-> IF trigger.present
                                      THEN <<"trigger", trigger.userId>>
                                      ELSE <<"actor", user_id>>,
                           type |-> "user-message",
                           message |-> message]]>>)
  ELSE Passed(message, <<>>)

\* rs after a call of update_node_status that returned: the store it left
\* and, when it wrote, the write
Wrote(rs, u, node_id, status) ==
  [rs EXCEPT !.wfs = u.wfs,
             !.writes = IF u.value THEN Append(@, <<node_id, status>>) ELSE @]

\* the failure is recorded but the node is not set REJECTED
RejectedLeavesStatus(rs, flow, node, error, u) ==
  [rs EXCEPT !.message_flow = @ \o flow,
             !.executed = Append(@, node.id),
             !.nodes_failed = Append(@, [node_id |-> node.id, type |-> node.type,
                                         error |-> error]),
             !.ok = FALSE]

Rejected(rs, flow, node, error, u) ==
  IF u.raised
  THEN [rs EXCEPT !.message_flow = @ \o flow, !.executed = Append(@, node.id),
                  !.raised = TRUE, !.error = u.error, !.ok = FALSE]
  ELSE [Wrote(rs, u, node.id, REJECTED) EXCEPT
          !.message_flow = @ \o flow,
          !.executed = Append(@, node.id),
          !.nodes_failed = Append(@, [node_id |-> node.id, type |-> node.type,
                                      error |-> error]),
          !.ok = FALSE]

\* the except branch of execute_node: the node is set REJECTED and recorded;
\* a guard error raised here leaves execute_workflow
RejectNode(rs, flow, node, error) ==
  Rejected(rs, flow, node, error,
           update_node_status(rs.wfs, rs.workflow_id, node.id, REJECTED))

\* the node is completed and recorded but its output is not handed on
CompletedKeepsMessage(rs, node, b, u2) ==
  IF u2.raised THEN RejectNode(rs, b.flow, node, u2.error)
  ELSE [Wrote(rs, u2, node.id, COMPLETED) EXCEPT
          !.message_flow = @ \o b.flow,
          !.executed = Append(@, node.id),
          !.nodes_processed =
             Append(@, [node_id |-> node.id, type |-> node.type,
                        input_message |-> rs.current_message,
                        output_message |-> b.message]),
          !.processed = @ \cup {node.id},
          !.ok = TRUE]

Completed(rs, node, b, u2) ==
  IF u2.raised THEN RejectNode(rs, b.flow, node, u2.error)
  ELSE [Wrote(rs, u2, node.id, COMPLETED) EXCEPT
          !.message_flow = @ \o b.flow,
          !.executed = Append(@, node.id),
          !.nodes_processed =
             Append(@, [node_id |-> node.id, type |-> node.type,
                        input_message |-> rs.current_message,
                        output_message |-> b.message]),
          !.processed = @ \cup {node.id},
          !.current_message = b.message,
          !.ok = TRUE]

Behaved(rs, node, b) ==
  IF b.failed THEN RejectNode(rs, <<>>, node, b.error)
  ELSE Completed(rs, node, b,
                 update_node_status(rs.wfs, rs.workflow_id, node.id, COMPLETED))

Started(rs, node, u1) ==
  IF u1.raised THEN RejectNode(rs, <<>>, node, u1.error)
  ELSE Behaved(Wrote(rs, u1, node.id, IN_PROGRESS), node,
               NodeBehaviour(node.type, node.id, rs.current_message,
                             rs.trigger, rs.user_id))

\* execute_node(node, message) on the run state rs: rs.ok is the returned
\* success and rs.current_message the returned message
execute_node(rs, node) ==
  Started(rs, node,
          update_node_status(rs.wfs, rs.workflow_id, node.id, IN_PROGRESS))

-----------------------------------------------------------------------------
(* app/services/workflow_service.py: get_workflow_statistics *)

\* len([n for n in workflow.nodes if n.status == status])
CountStatus(nodes, status) ==
  Len(SelectSeq(nodes, LAMBDA n : n.status = status))

\* round(completed / total * 100, 2) if total > 0 else 0, in hundredths of
\* a percent
ProgressPercentage(completed, total) ==
  IF total > 0 THEN (completed * 20000 + total) \div (2 * total) ELSE 0

\* is_complete without the test that the workflow has a node
StatisticsOfAllCompleted(workflow_id, nodes) ==
  [workflow_id |-> workflow_id,
   total_nodes |-> Len(nodes),
   completed_nodes |-> CountStatus(nodes, COMPLETED),
   in_progress_nodes |-> CountStatus(nodes, IN_PROGRESS),
   pending_nodes |-> CountStatus(nodes, PENDING),
   rejected_nodes |-> CountStatus(nodes, REJECTED),
   progress_percentage |->
     ProgressPercentage(CountStatus(nodes, COMPLETED), Len(nodes)),
   is_complete |-> CountStatus(nodes, COMPLETED) = Len(nodes),
   content_count |-> 0]

\* the returned dict; content_db is empty in every state, no modelled
\* operation adds content
StatisticsOf(workflow_id, nodes) ==
  [workflow_id |-> workflow_id,
   total_nodes |-> Len(nodes),
   completed_nodes |-> CountStatus(nodes, COMPLETED),
   in_progress_nodes |-> CountStatus(nodes, IN_PROGRESS),
   pending_nodes |-> CountStatus(nodes, PENDING),
   rejected_nodes |-> CountStatus(nodes, REJECTED),
   progress_percentage |->
     ProgressPercentage(CountStatus(nodes, COMPLETED), Len(nodes)),
   is_complete |-> Len(nodes) > 0 /\ CountStatus(nodes, COMPLETED) = Len(nodes),
   content_count |-> 0]

\* get_workflow_statistics: the dict as a list of one record, <<>> for {}
get_workflow_statistics(wfs, workflow_id) ==
  IF get_workflow_by_id(wfs, workflow_id) = <<>> THEN <<>>
  ELSE <<StatisticsOf(workflow_id,
                      wfs[get_workflow_by_id(wfs, workflow_id)[1]].nodes)>>

-----------------------------------------------------------------------------
(* app/services/workflow_service.py: execute_workflow, the rounds *)

\* the INIT node is not counted among the processed nodes
dependencies_met_after_init(rs, node) ==
  \A i \in 1..Len(node.dependencies) :
    node.dependencies[i] \in rs.processed \ {rs.executed[1]}

dependencies_met(rs, node) ==
  \A i \in 1..Len(node.dependencies) : node.dependencies[i] \in rs.processed

Taken(rs, node) ==
  [rs EXCEPT !.remaining = RemoveId(@, node.id), !.executed_in_round = TRUE]

\* one round: the for loop over the copy of remaining_nodes taken at its
\* start; a failed node ends the round
RECURSIVE Round(_, _)
RECURSIVE RoundStep(_, _, _)
\* a failed node ends the round and the result is not marked failed
RoundStepKeepsSuccess(node, rest, r1) ==
  IF r1.raised THEN r1
  ELSE IF ~r1.ok THEN Taken(r1, node)
  ELSE Round(Taken(r1, node), rest)

RoundStep(node, rest, r1) ==
  IF r1.raised THEN r1
  ELSE IF ~r1.ok THEN [Taken(r1, node) EXCEPT !.success = FALSE]
  ELSE Round(Taken(r1, node), rest)

\* a node whose dependencies are not met leaves the remaining nodes
RoundDropsSkipped(rs, snapshot) ==
  IF snapshot = <<>> \/ rs.raised THEN rs
  ELSE IF dependencies_met(rs, Head(snapshot))
  THEN RoundStep(Head(snapshot), Tail(snapshot), execute_node(rs, Head(snapshot)))
  ELSE Round([rs EXCEPT !.remaining = RemoveId(@, Head(snapshot).id)],
             Tail(snapshot))

Round(rs, snapshot) ==
  IF snapshot = <<>> \/ rs.raised THEN rs
  ELSE IF dependencies_met(rs, Head(snapshot))
  THEN RoundStep(Head(snapshot), Tail(snapshot), execute_node(rs, Head(snapshot)))
  ELSE Round(rs, Tail(snapshot))

\* the remaining nodes are dropped without a record
UnresolvableDropped(remaining) ==
  SubSeq(remaining, 1, 0)

Unresolvable(remaining) ==
  [i \in 1..Len(remaining) |->
     [node_id |-> remaining[i].id, type |-> remaining[i].type,
      error |-> "Unresolvable dependencies"]]

\* the while loop over remaining_nodes
RECURSIVE Rounds(_)
RECURSIVE RoundDone(_)
\* a failed node ends the while loop as well as the round
RoundDoneStops(r) ==
  IF r.raised THEN r
  ELSE IF ~r.executed_in_round
  THEN [r EXCEPT !.nodes_failed = @ \o Unresolvable(r.remaining),
                 !.success = FALSE]
  ELSE IF ~r.success THEN r
  ELSE Rounds(r)

RoundDone(r) ==
  IF r.raised THEN r
  ELSE IF ~r.executed_in_round
  THEN [r EXCEPT !.nodes_failed = @ \o Unresolvable(r.remaining),
                 !.success = FALSE]
  ELSE Rounds(r)

\* every round scans the remaining nodes from the last to the first
RoundsBackwards(rs) ==
  IF rs.remaining = <<>> \/ rs.raised THEN rs
  ELSE RoundDone(Round([rs EXCEPT !.executed_in_round = FALSE,
                                  !.rounds = @ + 1],
                       [i \in 1..Len(rs.remaining) |->
                          rs.remaining[Len(rs.remaining) + 1 - i]]))

Rounds(rs) ==
  IF rs.remaining = <<>> \/ rs.raised THEN rs
  ELSE RoundDone(Round([rs EXCEPT !.executed_in_round = FALSE,
                                  !.rounds = @ + 1],
                       rs.remaining))

-----------------------------------------------------------------------------
(* app/services/workflow_service.py: execute_workflow *)

Failure(wfs, message) ==
  [raised |-> FALSE, error |-> "", wfs |-> wfs, ran |-> FALSE,
   result |-> [success |-> FALSE, message |-> message]]

ActiveAt(wfs, w) == wfs[w[1]].is_active

\* the fail-fast checks: the message of the first one that fails, or ""
fail_fast(wfs, users, perms, workflow_id, user_id) ==
  IF get_workflow_by_id(wfs, workflow_id) = <<>> THEN "Workflow not found"
  ELSE IF ~check_write_permission(wfs, users, perms, user_id, workflow_id)
  THEN "User does not have permission to execute this workflow"
  ELSE IF ~ActiveAt(wfs, get_workflow_by_id(wfs, workflow_id))
  THEN "Workflow is not active"
  ELSE ""

InitNodes(nodes) == SelectSeq(nodes, LAMBDA n : n.type = "INIT")

\* the structural validation without the check for a second INIT node
validate_structure_first_init(nodes) ==
  IF InitNodes(nodes) = <<>> THEN "No INIT node found in workflow" ELSE ""

\* the structural validation: its message, or "" when there is one INIT node
validate_structure(nodes) ==
  IF InitNodes(nodes) = <<>> THEN "No INIT node found in workflow"
  ELSE IF Len(InitNodes(nodes)) > 1
  THEN "Multiple INIT nodes found - only one allowed"
  ELSE ""

NodesOf(wfs, workflow_id) == wfs[get_workflow_by_id(wfs, workflow_id)[1]].nodes

\* the run state with the message seeded empty whatever the trigger
RunStateEmptySeed(wfs, workflow_id, user_id, trigger) ==
  [wfs |-> wfs, workflow_id |-> workflow_id,
   user_id |-> user_id, trigger |-> trigger,
   current_message |-> "",
   processed |-> {}, nodes_processed |-> <<>>,
   nodes_failed |-> <<>>, message_flow |-> <<>>,
   success |-> TRUE, ok |-> TRUE, raised |-> FALSE,
   error |-> "", remaining |-> <<>>,
   executed_in_round |-> FALSE, rounds |-> 0,
   writes |-> <<>>, executed |-> <<>>]

RunState(wfs, workflow_id, user_id, trigger) ==
  [wfs |-> wfs, workflow_id |-> workflow_id,
   user_id |-> user_id, trigger |-> trigger,
   current_message |-> IF trigger.present THEN trigger.message ELSE "",
   processed |-> {}, nodes_processed |-> <<>>,
   nodes_failed |-> <<>>, message_flow |-> <<>>,
   success |-> TRUE, ok |-> TRUE, raised |-> FALSE,
   error |-> "", remaining |-> <<>>,
   executed_in_round |-> FALSE, rounds |-> 0,
   writes |-> <<>>, executed |-> <<>>]

InitDone(nodes, init_node, rs1) ==
  IF rs1.raised THEN rs1
  ELSE IF ~rs1.ok THEN [rs1 EXCEPT !.success = FALSE]
  ELSE Rounds([rs1 EXCEPT !.remaining = RemoveId(nodes, init_node.id)])

RunFrom(nodes, init_node, rs0) ==
  InitDone(nodes, init_node, execute_node(rs0, init_node))

\* the run proper: the INIT node, then the rounds
run_nodes(wfs, nodes, workflow_id, user_id, trigger) ==
  RunFrom(nodes, InitNodes(nodes)[1],
          RunState(wfs, workflow_id, user_id, trigger))

Ran(workflow_id, user_id, trigger, rs) ==
  [raised |-> rs.raised, error |-> rs.error, wfs |-> rs.wfs, ran |-> TRUE,
   writes |-> rs.writes, executed |-> rs.executed, rounds |-> rs.rounds,
   result |-> [workflow_id |-> workflow_id,
               executed_by |-> user_id,
               trigger |-> trigger,
               nodes_processed |-> rs.nodes_processed,
               nodes_failed |-> rs.nodes_failed,
               message_flow |-> rs.message_flow,
               success |-> rs.success,
               final_message |-> rs.current_message]]

Validated(wfs, nodes, workflow_id, user_id, trigger, sv) ==
  IF sv # "" THEN Failure(wfs, sv)
  ELSE Ran(workflow_id, user_id, trigger,
           run_nodes(wfs, nodes, workflow_id, user_id, trigger))

Checked(wfs, workflow_id, user_id, trigger, ff) ==
  IF ff # "" THEN Failure(wfs, ff)
  ELSE Validated(wfs, NodesOf(wfs, workflow_id), workflow_id, user_id, trigger,
                 validate_structure(NodesOf(wfs, workflow_id)))

\* execute_workflow(workflow_id, user_id, trigger): the returned dict or the
\* exception that left the call, the store after the call, and what the run
\* did (the status writes, the nodes given to execute_node, the rounds)
execute_workflow(wfs, users, perms, workflow_id, user_id, trigger) ==
  Checked(wfs, workflow_id, user_id, trigger,
          fail_fast(wfs, users, perms, workflow_id, user_id))

-----------------------------------------------------------------------------
(* app/services/workflow_service.py: execute_workflow as a call in flight. *)
(* calls[p] holds the locals of caller p's call and its position: "start"  *)
(* before the IN_PROGRESS update of execute_node, "finish" after it,       *)
(* "except" in the except branch, "returned" and "raised" after the call.  *)
(* What a call does between two calls of update_node_status touches only   *)
(* its locals and is part of the step that follows the update.             *)

NoNode == [id |-> 0, type |-> "", dependencies |-> <<>>]

\* no call made yet
Idle ==
  [pc |-> "idle", workflow_id |-> 0, user_id |-> 0, trigger |-> NoTrigger,
   stage |-> "", node |-> NoNode, error |-> "", current_message |-> "",
   processed |-> {}, remaining |-> <<>>, rest |-> <<>>,
   executed_in_round |-> FALSE, nodes_processed |-> <<>>,
   nodes_failed |-> <<>>, message_flow |-> <<>>, success |-> TRUE,
   message |-> "", refused |-> <<>>, disturbed |-> {}]

InFlight(c) == c.pc \in {"start", "finish", "except"}

\* a node as the call holds it: the status is read from the store
NodeRef(n) == [id |-> n.id, type |-> n.type, dependencies |-> n.dependencies]

NodeRefs(nodes) == [i \in 1..Len(nodes) |-> NodeRef(nodes[i])]

\* the call returns its result
CallReturned(c) == [c EXCEPT !.pc = "returned", !.node = NoNode]

\* the for loop over the copy of remaining_nodes, from the node after the one
\* just executed: the next node whose dependencies are in processed_nodes is
\* given to execute_node; at the end of the copy the while loop goes on
RECURSIVE ForNext(_)
RECURSIVE ForEnd(_)
RECURSIVE WhileTop(_)
ForNext(c) ==
  IF c.rest = <<>> THEN ForEnd(c)
  ELSE IF dependencies_met(c, Head(c.rest))
  THEN [c EXCEPT !.pc = "start", !.node = Head(c.rest), !.rest = Tail(c.rest)]
  ELSE ForNext([c EXCEPT !.rest = Tail(c.rest)])

ForEnd(c) ==
  IF ~c.executed_in_round
  THEN CallReturned([c EXCEPT !.nodes_failed = @ \o Unresolvable(c.remaining),
                              !.success = FALSE])
  ELSE WhileTop(c)

WhileTop(c) ==
  IF c.remaining = <<>> THEN CallReturned(c)
  ELSE ForNext([c EXCEPT !.executed_in_round = FALSE, !.rest = c.remaining])

\* after execute_node returned ok for the INIT node (lines 197-204) or for a
\* node of a round (lines 214-220); nodes is workflow.nodes
AfterNode(c, ok, nodes) ==
  IF c.stage = "init"
  THEN IF ~ok THEN CallReturned([c EXCEPT !.success = FALSE])
       ELSE WhileTop([c EXCEPT !.stage = "round",
                               !.remaining = RemoveId(NodeRefs(nodes), c.node.id)])
  ELSE IF ~ok
  THEN ForEnd([c EXCEPT !.remaining = RemoveId(@, c.node.id),
                        !.executed_in_round = TRUE, !.success = FALSE])
  ELSE ForNext([c EXCEPT !.remaining = RemoveId(@, c.node.id),
                         !.executed_in_round = TRUE])

\* the guard refused the node of the call although the call has processed
\* all its dependencies: the node and the dependency the error names
Refusal(c, nodes) ==
  IF \A i \in 1..Len(c.node.dependencies) : c.node.dependencies[i] \in c.processed
  THEN <<[node_id |-> c.node.id,
          dep_id |-> UnmetDeps(nodes, c.node.dependencies)[1]]>>
  ELSE <<>>

\* another call wrote the status of node_id while the call c was in flight
Disturbed(c, node_id) ==
  IF InFlight(c) THEN [c EXCEPT !.disturbed = @ \cup {node_id}] ELSE c

\* the step with the status written to a copy of the node: the store keeps
\* the old status
SteppedOnCopy(p, u, written, refused) ==
  IF u.raised
  THEN /\ calls' = [calls EXCEPT ![p] = refused]
       /\ UNCHANGED <<workflows_db, next_workflow_id, next_node_id, users_db,
                      workflow_permissions_db, ret>>
  ELSE /\ calls' = [calls EXCEPT ![p] = written]
       /\ UNCHANGED <<workflows_db, next_workflow_id, next_node_id, users_db,
                      workflow_permissions_db, ret>>

\* the step of caller p: u is what update_node_status returned or raised,
\* written the call as it goes on after a write, refused as it goes on after
\* the guard raised
Stepped(p, u, written, refused) ==
  IF u.raised
  THEN /\ calls' = [calls EXCEPT ![p] = refused]
       /\ UNCHANGED <<workflows_db, next_workflow_id, next_node_id, users_db,
                      workflow_permissions_db, ret>>
  ELSE /\ workflows_db' = u.wfs
       /\ calls' = [q \in Callers |->
                      IF q = p THEN written
                      ELSE IF u.value THEN Disturbed(calls[q], calls[p].node.id)
                      ELSE calls[q]]
       /\ UNCHANGED <<next_workflow_id, next_node_id, users_db,
                      workflow_permissions_db, ret>>

\* the call enters the except branch of execute_node with the guard's error
Raised(c, u, nodes) ==
  [c EXCEPT !.pc = "except", !.error = u.error,
            !.refused = @ \o Refusal(c, nodes)]

\* lines 102-135: the fail-fast checks, the structural validation and the
\* locals of the run
BeginValidated(p, workflow_id, user_id, trigger, nodes, sv) ==
  IF sv # ""
  THEN calls' = [calls EXCEPT ![p] =
                   [Idle EXCEPT !.pc = "returned", !.workflow_id = workflow_id,
                                !.user_id = user_id, !.success = FALSE,
                                !.message = sv]]
  ELSE calls' = [calls EXCEPT ![p] =
                   [Idle EXCEPT !.pc = "start", !.workflow_id = workflow_id,
                                !.user_id = user_id, !.trigger = trigger,
                                !.stage = "init",
                                !.node = NodeRef(InitNodes(nodes)[1]),
                                !.current_message =
                                   IF trigger.present THEN trigger.message
                                   ELSE ""]]

BeginChecked(p, workflow_id, user_id, trigger, ff) ==
  IF ff # ""
  THEN calls' = [calls EXCEPT ![p] =
                   [Idle EXCEPT !.pc = "returned", !.workflow_id = workflow_id,
                                !.user_id = user_id, !.success = FALSE,
                                !.message = ff]]
  ELSE BeginValidated(p, workflow_id, user_id, trigger,
                      NodesOf(workflows_db, workflow_id),
                      validate_structure(NodesOf(workflows_db, workflow_id)))

\* caller p calls execute_workflow
BeginCall(p, workflow_id, user_id, trigger) ==
  /\ ~InFlight(calls[p])
  /\ BeginChecked(p, workflow_id, user_id, trigger,
                  fail_fast(workflows_db, users_db, workflow_permissions_db,
                            workflow_id, user_id))
  /\ UNCHANGED <<workflows_db, next_workflow_id, next_node_id, users_db,
                 workflow_permissions_db, ret>>

\* line 140: update_node_status(workflow_id, node.id, IN_PROGRESS)
StartNode(p) ==
  /\ calls[p].pc = "start"
  /\ Stepped(p, update_node_status(workflows_db, calls[p].workflow_id,
                                   calls[p].node.id, IN_PROGRESS),
             [calls[p] EXCEPT !.pc = "finish"],
             Raised(calls[p],
                    update_node_status(workflows_db, calls[p].workflow_id,
                                       calls[p].node.id, IN_PROGRESS),
                    NodesOf(workflows_db, calls[p].workflow_id)))

\* lines 176-184: the node is recorded as processed
NodeProcessed(c, b) ==
  [c EXCEPT !.message_flow = @ \o b.flow,
            !.nodes_processed =
               Append(@, [node_id |-> c.node.id, type |-> c.node.type,
                          input_message |-> c.current_message,
                          output_message |-> b.message]),
            !.processed = @ \cup {c.node.id},
            !.current_message = b.message]

\* lines 142-176: the behaviour of the node, then
\* update_node_status(workflow_id, node.id, COMPLETED)
FinishBehaved(p, b) ==
  IF b.failed
  THEN /\ calls' = [calls EXCEPT ![p].pc = "except", ![p].error = b.error]
       /\ UNCHANGED <<workflows_db, next_workflow_id, next_node_id, users_db,
                      workflow_permissions_db, ret>>
  ELSE Stepped(p, update_node_status(workflows_db, calls[p].workflow_id,
                                     calls[p].node.id, COMPLETED),
               AfterNode(NodeProcessed(calls[p], b), TRUE,
                         NodesOf(workflows_db, calls[p].workflow_id)),
               Raised([calls[p] EXCEPT !.message_flow = @ \o b.flow],
                      update_node_status(workflows_db, calls[p].workflow_id,
                                         calls[p].node.id, COMPLETED),
                      NodesOf(workflows_db, calls[p].workflow_id)))

FinishNode(p) ==
  /\ calls[p].pc = "finish"
  /\ FinishBehaved(p, NodeBehaviour(calls[p].node.type, calls[p].node.id,
                                    calls[p].current_message, calls[p].trigger,
                                    calls[p].user_id))

\* lines 188-193: the failed node is recorded
NodeFailed(c) ==
  [c EXCEPT !.nodes_failed =
               Append(@, [node_id |-> c.node.id, type |-> c.node.type,
                          error |-> c.error])]

\* line 187: update_node_status(workflow_id, node.id, REJECTED) in the except
\* branch; when the guard raises here the exception leaves execute_workflow
ExceptNode(p) ==
  /\ calls[p].pc = "except"
  /\ Stepped(p, update_node_status(workflows_db, calls[p].workflow_id,
                                   calls[p].node.id, REJECTED),
             AfterNode(NodeFailed(calls[p]), FALSE,
                       NodesOf(workflows_db, calls[p].workflow_id)),
             [calls[p] EXCEPT
                !.pc = "raised",
                !.refused = @ \o Refusal(calls[p],
                                         NodesOf(workflows_db, calls[p].workflow_id))])

-----------------------------------------------------------------------------
(* State after the modules are loaded. *)

Init ==
  /\ workflows_db = <<>>
  /\ next_workflow_id = 1
  /\ next_node_id = 1
  /\ users_db = <<default_admin>>
  /\ workflow_permissions_db = <<>>
  /\ ret = [op |-> "init"]
  /\ calls = [p \in Callers |-> Idle]

-----------------------------------------------------------------------------
(* The service operations as actions. ret records the last call: its       *)
(* arguments, what it returned or raised and, for execute_workflow, the    *)
(* store it started from.                                                  *)

\* roles or default: None and the empty list, both <<>> here, give the default
RolesOr(roles, default) == IF roles = <<>> THEN default ELSE roles

\* WorkflowService.create_workflow
create_workflow(owner_id, read_roles, write_roles) ==
  /\ workflows_db' = Append(workflows_db,
       [id |-> next_workflow_id, owner_id |-> owner_id, nodes |-> <<>>,
        is_active |-> TRUE,
        read_roles |-> RolesOr(read_roles, <<"Analyst", "Category Manager">>),
        write_roles |-> RolesOr(write_roles, <<"Admin", "Category Manager">>)])
  /\ next_workflow_id' = next_workflow_id + 1
  /\ ret' = [op |-> "create_workflow", workflow_id |-> next_workflow_id]
  /\ UNCHANGED <<calls, next_node_id, users_db, workflow_permissions_db>>

MissingDependencyError(dep_id) ==
  "Dependency node " \o ToString(dep_id) \o " does not exist in workflow"

AddReturn(workflow_id, dependencies, raised, error, node_id) ==
  [op |-> "add_node_to_workflow", workflow_id |-> workflow_id,
   dependencies |-> dependencies,
   raised |-> raised, error |-> error, node_id |-> node_id]

\* the dependencies looked up among the nodes of every workflow
AddCheckedAnyWorkflow(workflow_id, wi, type, dependencies, missing) ==
  IF \E i \in 1..Len(dependencies) :
       \A w \in 1..Len(workflows_db) :
         dependencies[i] \notin NodeIds(workflows_db[w].nodes)
  THEN /\ ret' = AddReturn(workflow_id, dependencies, TRUE,
                           MissingDependencyError(missing[1]), 0)
       /\ UNCHANGED <<calls, workflows_db, next_workflow_id, next_node_id, users_db,
                      workflow_permissions_db>>
  ELSE /\ workflows_db' =
            [workflows_db EXCEPT ![wi].nodes =
               Append(@, [id |-> next_node_id, type |-> type,
                          status |-> PENDING, dependencies |-> dependencies])]
       /\ next_node_id' = next_node_id + 1
       /\ ret' = AddReturn(workflow_id, dependencies, FALSE, "", next_node_id)
       /\ UNCHANGED <<calls, next_workflow_id, users_db, workflow_permissions_db>>

\* the node is counted among the existing ones before its dependencies are
\* looked up, so that its own id passes
AddCheckedOwnId(workflow_id, wi, type, dependencies, missing) ==
  IF SelectSeq(missing, LAMBDA d : d # next_node_id) # <<>>
  THEN /\ ret' = AddReturn(workflow_id, dependencies, TRUE,
                           MissingDependencyError(
                             SelectSeq(missing, LAMBDA d : d # next_node_id)[1]), 0)
       /\ UNCHANGED <<calls, workflows_db, next_workflow_id, next_node_id, users_db,
                      workflow_permissions_db>>
  ELSE /\ workflows_db' =
            [workflows_db EXCEPT ![wi].nodes =
               Append(@, [id |-> next_node_id, type |-> type,
                          status |-> PENDING, dependencies |-> dependencies])]
       /\ next_node_id' = next_node_id + 1
       /\ ret' = AddReturn(workflow_id, dependencies, FALSE, "", next_node_id)
       /\ UNCHANGED <<calls, next_workflow_id, users_db, workflow_permissions_db>>

AddChecked(workflow_id, wi, type, dependencies, missing) ==
  IF missing # <<>>
  THEN /\ ret' = AddReturn(workflow_id, dependencies, TRUE,
                           MissingDependencyError(missing[1]), 0)
       /\ UNCHANGED <<calls, workflows_db, next_workflow_id, next_node_id, users_db,
                      workflow_permissions_db>>
  ELSE /\ workflows_db' =
            [workflows_db EXCEPT ![wi].nodes =
               Append(@, [id |-> next_node_id, type |-> type,
                          status |-> PENDING, dependencies |-> dependencies])]
       /\ next_node_id' = next_node_id + 1
       /\ ret' = AddReturn(workflow_id, dependencies, FALSE, "", next_node_id)
       /\ UNCHANGED <<calls, next_workflow_id, users_db, workflow_permissions_db>>

AddIn(workflow_id, w, type, dependencies) ==
  IF w = <<>>
  THEN /\ ret' = AddReturn(workflow_id, dependencies, FALSE, "", 0)
       /\ UNCHANGED <<calls, workflows_db, next_workflow_id, next_node_id, users_db,
                      workflow_permissions_db>>
  ELSE AddChecked(workflow_id, w[1], type, dependencies,
                  SelectSeq(dependencies,
                            LAMBDA d : d \notin NodeIds(workflows_db[w[1]].nodes)))

\* WorkflowService.add_node_to_workflow; node_id 0 stands for no node
add_node_to_workflow(workflow_id, type, dependencies) ==
  AddIn(workflow_id, get_workflow_by_id(workflows_db, workflow_id), type,
        dependencies)

Updated(workflow_id, node_id, status, u) ==
  /\ workflows_db' = u.wfs
  /\ ret' = [op |-> "update_node_status", workflow_id |-> workflow_id,
             node_id |-> node_id, status |-> status, raised |-> u.raised,
             error |-> u.error, value |-> u.value]
  /\ UNCHANGED <<calls, next_workflow_id, next_node_id, users_db,
                 workflow_permissions_db>>

\* WorkflowService.update_node_status called from outside the engine
UpdateNodeStatus(workflow_id, node_id, status) ==
  Updated(workflow_id, node_id, status,
          update_node_status(workflows_db, workflow_id, node_id, status))

Executed(workflow_id, user_id, e) ==
  /\ workflows_db' = e.wfs
  /\ ret' = [x \in (DOMAIN e \ {"wfs"}) |-> e[x]] @@
            [op |-> "execute_workflow", workflow_id |-> workflow_id,
             user_id |-> user_id, pre |-> workflows_db,
             pre_perms |-> workflow_permissions_db]
  /\ UNCHANGED <<calls, next_workflow_id, next_node_id, users_db,
                 workflow_permissions_db>>

\* WorkflowService.execute_workflow, run to completion
ExecuteWorkflow(workflow_id, user_id, trigger) ==
  Executed(workflow_id, user_id,
           execute_workflow(workflows_db, users_db, workflow_permissions_db,
                            workflow_id, user_id, trigger))

StoreChanged(op, workflow_id, user_id, permission, g) ==
  /\ workflow_permissions_db' = g.perms
  /\ ret' = [op |-> op, workflow_id |-> workflow_id, user_id |-> user_id,
             permission |-> permission, value |-> g.value]
  /\ UNCHANGED <<calls, workflows_db, next_workflow_id, next_node_id, users_db>>

\* PermissionService.grant_workflow_permission
GrantWorkflowPermission(workflow_id, user_id, permission) ==
  StoreChanged("grant_workflow_permission", workflow_id, user_id, permission,
               grant_workflow_permission(workflow_permissions_db, workflow_id,
                                         user_id, permission))

\* PermissionService.revoke_workflow_permission
RevokeWorkflowPermission(workflow_id, user_id, permission) ==
  StoreChanged("revoke_workflow_permission", workflow_id, user_id, permission,
               revoke_workflow_permission(workflow_permissions_db, workflow_id,
                                          user_id, permission))

CreateUserReturn(raised, error, user_id) ==
  [op |-> "create_user", raised |-> raised, error |-> error, user_id |-> user_id]

\* AuthService.create_user; user_id 0 stands for no user
create_user(user_data) ==
  IF \E i \in 1..Len(users_db) :
       \/ users_db[i].username = user_data.username
       \/ users_db[i].email = user_data.email
  THEN /\ ret' = CreateUserReturn(
                   TRUE, "User with this username or email already exists", 0)
       /\ UNCHANGED <<calls, workflows_db, next_workflow_id, next_node_id, users_db,
                      workflow_permissions_db>>
  ELSE /\ users_db' = Append(users_db,
            [id |-> Len(users_db) + 1, email |-> user_data.email,
             username |-> user_data.username, roles |-> <<default_role>>])
       /\ ret' = CreateUserReturn(FALSE, "", Len(users_db) + 1)
       /\ UNCHANGED <<calls, workflows_db, next_workflow_id, next_node_id,
                      workflow_permissions_db>>

AssignAt(user_id, role_id, u) ==
  IF /\ u # <<>>
     /\ role_id \in DOMAIN roles_db
     /\ role_id \notin Range(users_db[u[1]].roles)
  THEN /\ users_db' = [users_db EXCEPT ![u[1]].roles = Append(@, role_id)]
       /\ ret' = [op |-> "assign_role_to_user", user_id |-> user_id,
                  role_id |-> role_id, value |-> TRUE]
       /\ UNCHANGED <<calls, workflows_db, next_workflow_id, next_node_id,
                      workflow_permissions_db>>
  ELSE /\ ret' = [op |-> "assign_role_to_user", user_id |-> user_id,
                  role_id |-> role_id, value |-> FALSE]
       /\ UNCHANGED <<calls, workflows_db, next_workflow_id, next_node_id, users_db,
                      workflow_permissions_db>>

\* AuthService.assign_role_to_user
assign_role_to_user(user_id, role_id) ==
  AssignAt(user_id, role_id, UserIndex(users_db, user_id))

\* a check that looks the grants up with setdefault instead of get: the
\* entries of the workflow and the user are made when they are missing
PermissionCheckedMakesEntries(op, user_id, workflow_id, value) ==
  /\ ret' = [op |-> op, user_id |-> user_id, workflow_id |-> workflow_id,
             value |-> value]
  /\ workflow_permissions_db' =
       WithUser(WithWorkflow(workflow_permissions_db, workflow_id),
                workflow_id, user_id)
  /\ UNCHANGED <<calls, workflows_db, next_workflow_id, next_node_id, users_db>>

PermissionChecked(op, user_id, workflow_id, value) ==
  /\ ret' = [op |-> op, user_id |-> user_id, workflow_id |-> workflow_id,
             value |-> value]
  /\ UNCHANGED <<calls, workflows_db, next_workflow_id, next_node_id, users_db,
                 workflow_permissions_db>>

\* PermissionService.check_read_permission, called on the stores
CheckReadPermission(user_id, workflow_id) ==
  PermissionChecked("check_read_permission", user_id, workflow_id,
                    check_read_permission(workflows_db, users_db,
                                          workflow_permissions_db,
                                          user_id, workflow_id))

\* PermissionService.check_write_permission, called on the stores
CheckWritePermission(user_id, workflow_id) ==
  PermissionChecked("check_write_permission", user_id, workflow_id,
                    check_write_permission(workflows_db, users_db,
                                           workflow_permissions_db,
                                           user_id, workflow_id))

\* PermissionService.check_execute_permission, called on the stores
CheckExecutePermission(user_id, workflow_id) ==
  PermissionChecked("check_execute_permission", user_id, workflow_id,
                    check_execute_permission(workflows_db, users_db,
                                             workflow_permissions_db,
                                             user_id, workflow_id))

DeactivateAt(workflow_id, w) ==
  /\ w # <<>>
  /\ workflows_db[w[1]].is_active
  /\ workflows_db' = [workflows_db EXCEPT ![w[1]].is_active = FALSE]
  /\ ret' = [op |-> "deactivate_workflow", workflow_id |-> workflow_id]
  /\ UNCHANGED <<calls, next_workflow_id, next_node_id, users_db,
                 workflow_permissions_db>>

\* the is_active field of a stored Workflow cleared by the holder of the
\* store; no service operation writes it
deactivate_workflow(workflow_id) ==
  DeactivateAt(workflow_id, get_workflow_by_id(workflows_db, workflow_id))

-----------------------------------------------------------------------------
(* The calls the specifications make. *)

\* create_workflow with role lists, while the id it hands out is in ids
CreateWorkflowWith(ids, owners, read_lists, write_lists) ==
  /\ next_workflow_id \in ids
  /\ \E owner_id \in owners, read_roles \in read_lists,
        write_roles \in write_lists :
       create_workflow(owner_id, read_roles, write_roles)

\* create_workflow without role lists, while the id it hands out is in ids
CreateWorkflowIn(ids) == CreateWorkflowWith(ids, OwnerIds, {<<>>}, {<<>>})

CreateWorkflow == CreateWorkflowIn(WorkflowIds)

\* add_node_to_workflow with dependency lists over the ids handed out so far,
\* or naming the id that is not handed out yet
AddNode(types, max) ==
  /\ next_node_id <= max
  /\ \E workflow_id \in WorkflowIds, type \in types,
        dependencies \in DepLists(1..(next_node_id - 1)) \cup {<<next_node_id>>} :
       add_node_to_workflow(workflow_id, type, dependencies)

\* add_node_to_workflow on either workflow with dependency lists over the ids
\* handed out so far and the one not handed out yet
AddNodeAnywhere(max) ==
  /\ next_node_id <= max
  /\ \E workflow_id \in AddWorkflowIds, type \in StatusTypes,
        dependencies \in DepSeqs(1..next_node_id) :
       add_node_to_workflow(workflow_id, type, dependencies)

ManualUpdate(max) ==
  \E workflow_id \in WorkflowIds, node_id \in 1..max, status \in NodeStatus :
    UpdateNodeStatus(workflow_id, node_id, status)

Execute(actors) ==
  \E workflow_id \in WorkflowIds, user_id \in actors, trigger \in Triggers :
    ExecuteWorkflow(workflow_id, user_id, trigger)

GrantIn(users) ==
  \E workflow_id \in WorkflowIds, user_id \in users,
     permission \in GrantInputs :
    GrantWorkflowPermission(workflow_id, user_id, permission)

RevokeIn(users) ==
  \E workflow_id \in WorkflowIds, user_id \in users,
     permission \in GrantInputs :
    RevokeWorkflowPermission(workflow_id, user_id, permission)

\* PermissionService.get_user_workflow_permissions, called on the stores
GetUserWorkflowPermissions(user_id, workflow_id) ==
  StoreChanged("get_user_workflow_permissions", workflow_id, user_id, "",
               get_user_workflow_permissions(workflows_db, users_db,
                                             workflow_permissions_db,
                                             user_id, workflow_id))

\* PermissionService.get_workflow_users_with_permissions
GetWorkflowUsersWithPermissions(workflow_id) ==
  /\ ret' = [op |-> "get_workflow_users_with_permissions",
             workflow_id |-> workflow_id,
             value |-> get_workflow_users_with_permissions(
                         workflow_permissions_db, workflow_id)]
  /\ UNCHANGED <<calls, workflows_db, next_workflow_id, next_node_id, users_db,
                 workflow_permissions_db>>


\* WorkflowService.get_workflow_statistics, called on the store
GetWorkflowStatistics(workflow_id) ==
  /\ ret' = [op |-> "get_workflow_statistics", workflow_id |-> workflow_id,
             value |-> get_workflow_statistics(workflows_db, workflow_id)]
  /\ UNCHANGED <<calls, workflows_db, next_workflow_id, next_node_id, users_db,
                 workflow_permissions_db>>

Grant == GrantIn(GranteeIds)

Revoke == RevokeIn(GranteeIds)

CreateUser == \E user_data \in UserInputs : create_user(user_data)

AssignRole ==
  \E user_id \in ActorIds, role_id \in AssignRoleIds :
    assign_role_to_user(user_id, role_id)

CheckRead ==
  \E user_id \in ActorIds, workflow_id \in CheckWorkflowIds :
    CheckReadPermission(user_id, workflow_id)

CheckWrite ==
  \E user_id \in ActorIds, workflow_id \in CheckWorkflowIds :
    CheckWritePermission(user_id, workflow_id)

CheckExecute ==
  \E user_id \in ActorIds, workflow_id \in CheckWorkflowIds :
    CheckExecutePermission(user_id, workflow_id)

Deactivate == \E workflow_id \in WorkflowIds : deactivate_workflow(workflow_id)

\* the engine: workflows are built and run; statuses change through runs only
Next ==
  \/ CreateWorkflow
  \/ AddNode(EngineTypes, MaxNodes)
  \/ Execute(EngineActorIds)

Spec == Init /\ [][Next]_vars

\* the engine with callers that also set node statuses by hand
NextManual ==
  \/ CreateWorkflow
  \/ AddNode(ManualTypes, MaxNodes)
  \/ ManualUpdate(MaxNodes)
  \/ Execute(EngineActorIds)

SpecManual == Init /\ [][NextManual]_vars

\* the engine on every node type, run by the owner
NextMessage ==
  \/ CreateWorkflow
  \/ AddNode(MessageTypes, MessageMaxNodes)
  \/ Execute(OwnerIds)

SpecMessage == Init /\ [][NextMessage]_vars

\* the node status state machine alone
NextStatus ==
  \/ CreateWorkflow
  \/ AddNode(StatusTypes, StatusMaxNodes)
  \/ ManualUpdate(StatusMaxNodes)

SpecStatus == Init /\ [][NextStatus]_vars

\* workflows being built: add_node_to_workflow over two workflows
NextAdd ==
  \/ CreateWorkflowIn(AddWorkflowIds)
  \/ AddNodeAnywhere(AddMaxNodes)

SpecAdd == Init /\ [][NextAdd]_vars

\* users, roles and grants, and the three permission checks asked of them
NextAccess ==
  \/ CreateWorkflow
  \/ CreateUser
  \/ AssignRole
  \/ GrantIn(AccessGranteeIds)
  \/ RevokeIn(AccessGranteeIds)
  \/ CheckRead
  \/ CheckWrite
  \/ CheckExecute

SpecAccess == Init /\ [][NextAccess]_vars

\* role lists on the workflow, roles and grants of a user who does not own
\* it, and the three permission checks
NextRoles ==
  \/ CreateWorkflowWith(WorkflowIds, RoleOwnerIds, ReadRoleLists, WriteRoleLists)
  \/ CreateUser
  \/ AssignRole
  \/ GrantIn(RoleGranteeIds)
  \/ RevokeIn(RoleGranteeIds)
  \/ CheckRead
  \/ CheckWrite
  \/ CheckExecute

SpecRoles == Init /\ [][NextRoles]_vars

\* the grant store under every operation that reads it: the checks, the two
\* listings and runs, next to grant and revoke
NextStore ==
  \/ CreateWorkflowWith(WorkflowIds, RoleOwnerIds, {<<>>}, {<<>>})
  \/ AddNode(RaceTypes, StoreMaxNodes)
  \/ CreateUser
  \/ \E user_id \in RoleGranteeIds :
       assign_role_to_user(user_id, default_admin.roles[1])
  \/ GrantIn(RoleGranteeIds)
  \/ RevokeIn(RoleGranteeIds)
  \/ \E user_id \in RoleGranteeIds, workflow_id \in WorkflowIds :
       CheckReadPermission(user_id, workflow_id)
  \/ \E user_id \in RoleGranteeIds, workflow_id \in WorkflowIds :
       CheckWritePermission(user_id, workflow_id)
  \/ \E user_id \in RoleGranteeIds, workflow_id \in WorkflowIds :
       CheckExecutePermission(user_id, workflow_id)
  \/ \E user_id \in RoleGranteeIds, workflow_id \in WorkflowIds :
       GetUserWorkflowPermissions(user_id, workflow_id)
  \/ \E workflow_id \in WorkflowIds :
       GetWorkflowUsersWithPermissions(workflow_id)
  \/ \E workflow_id \in WorkflowIds, user_id \in RoleGranteeIds,
        trigger \in RaceTriggers :
       ExecuteWorkflow(workflow_id, user_id, trigger)

SpecStore == Init /\ [][NextStore]_vars

\* node statuses moved by update_node_status, and the statistics of the
\* workflow
NextStats ==
  \/ CreateWorkflow
  \/ AddNode(StatusTypes, StatsMaxNodes)
  \/ ManualUpdate(StatsMaxNodes)
  \/ \E workflow_id \in CheckWorkflowIds : GetWorkflowStatistics(workflow_id)

SpecStats == Init /\ [][NextStats]_vars

\* two callers whose runs of the workflow interleave between the calls of
\* update_node_status
NextRace ==
  \/ CreateWorkflow
  \/ AddNode(RaceTypes, RaceMaxNodes)
  \/ \E p \in Callers, workflow_id \in WorkflowIds, user_id \in OwnerIds,
        trigger \in RaceTriggers :
       BeginCall(p, workflow_id, user_id, trigger)
  \/ \E p \in Callers : StartNode(p)
  \/ \E p \in Callers : FinishNode(p)
  \/ \E p \in Callers : ExceptNode(p)

SpecRace == Init /\ [][NextRace]_vars

\* the permission guard in front of the engine
NextGuard ==
  \/ CreateWorkflow
  \/ AddNode(GuardTypes, GuardMaxNodes)
  \/ Grant
  \/ Revoke
  \/ Deactivate
  \/ Execute(ActorIds)

SpecGuard == Init /\ [][NextGuard]_vars

-----------------------------------------------------------------------------
(* What the properties below read from the last call.                      *)

\* the last call was execute_workflow
RunCalled == ret.op = "execute_workflow"

\* the last call was execute_workflow, it passed its checks and returned
RunReturned == ret.op = "execute_workflow" /\ ret.ran /\ ~ret.raised

\* the workflow the last run was given exists in the store it started from
PreExists == \E i \in 1..Len(ret.pre) : ret.pre[i].id = ret.workflow_id

PreWorkflow ==
  ret.pre[CHOOSE i \in 1..Len(ret.pre) : ret.pre[i].id = ret.workflow_id]

\* the nodes of that workflow as the run found them, and as it left them
PreNodes == PreWorkflow.nodes

PostNodes ==
  workflows_db[CHOOSE i \in 1..Len(workflows_db) :
                 workflows_db[i].id = ret.workflow_id].nodes

NodeOf(nodes, id) == nodes[CHOOSE i \in 1..Len(nodes) : nodes[i].id = id]

\* the nodes the run set REJECTED
RejectedInRun ==
  {ret.writes[i][1] : i \in {k \in 1..Len(ret.writes) : ret.writes[k][2] = REJECTED}}

\* node id depends, directly or through other nodes, on a member of S
RECURSIVE DependsOn(_, _, _)
DependsOn(nodes, id, S) ==
  \E d \in Range(NodeOf(nodes, id).dependencies) :
    d \in S \/ (d \in NodeIds(nodes) /\ d # id /\ DependsOn(nodes, d, S))

FailedAs(id, error) ==
  \E k \in 1..Len(ret.result.nodes_failed) :
    /\ ret.result.nodes_failed[k].node_id = id
    /\ ret.result.nodes_failed[k].error = error

Terminal(status) == status \in {COMPLETED, REJECTED}

-----------------------------------------------------------------------------
(* Properties. *)

\* C1: execute_workflow never raises. Whatever the workflow, the statuses of
\* its nodes, the actor and the trigger, the call returns a result record; a
\* status change refused by the dependency guard is recorded in nodes_failed.
C1_NeverRaises == RunCalled => ~ret.raised

\* C2: in every result returned by execute_workflow, each node listed in
\* nodes_processed is preceded in that list by all of its dependencies, the
\* INIT node included.
C2_DependencyOrder ==
  RunReturned =>
    \A i \in 1..Len(ret.result.nodes_processed) :
      \A d \in Range(NodeOf(PreNodes, ret.result.nodes_processed[i].node_id).dependencies) :
        \E j \in 1..(i - 1) : ret.result.nodes_processed[j].node_id = d

\* C3: once the status of a node is COMPLETED or REJECTED, no call of
\* update_node_status and no run of execute_workflow leaves it PENDING or
\* IN_PROGRESS.
C3_TerminalStays ==
  [][\A w \in 1..Len(workflows_db) :
       \A n \in 1..Len(workflows_db[w].nodes) :
         Terminal(workflows_db[w].nodes[n].status)
           => Terminal(workflows_db'[w].nodes[n].status)]_vars

\* the node that the call of update_node_status recorded in ret' names, in the
\* store the call started from
Target == NodeOf(workflows_db[1].nodes, ret'.node_id)

TargetIn(nodes) == NodeOf(nodes, ret'.node_id)

NotCompleted(d) ==
  \/ d \notin NodeIds(workflows_db[1].nodes)
  \/ NodeOf(workflows_db[1].nodes, d).status # COMPLETED

\* C4: update_node_status(workflow, node, s) with s other than PENDING: when
\* some dependency of the node is not COMPLETED the call raises an error that
\* names the first such dependency and no node status changes; when every
\* dependency is COMPLETED the call returns True, the node has status s and
\* every other node is as it was.
C4_TransitionGuard ==
  [][(/\ ret'.op = "update_node_status"
      /\ ret'.status # PENDING
      /\ Len(workflows_db) = 1
      /\ ret'.workflow_id = workflows_db[1].id
      /\ ret'.node_id \in NodeIds(workflows_db[1].nodes))
     =>
     IF \E d \in Range(Target.dependencies) : NotCompleted(d)
     THEN /\ ret'.raised
          /\ \E i \in 1..Len(Target.dependencies) :
               /\ NotCompleted(Target.dependencies[i])
               /\ \A j \in 1..(i - 1) : ~NotCompleted(Target.dependencies[j])
               /\ ret'.error = "Cannot update node status: dependency "
                                \o ToString(Target.dependencies[i])
                                \o " is not completed"
          /\ workflows_db' = workflows_db
     ELSE /\ ~ret'.raised
          /\ ret'.value
          /\ TargetIn(workflows_db'[1].nodes).status = ret'.status
          /\ Len(workflows_db'[1].nodes) = Len(workflows_db[1].nodes)
          /\ \A n \in 1..Len(workflows_db[1].nodes) :
               workflows_db[1].nodes[n].id # ret'.node_id
                 => workflows_db'[1].nodes[n] = workflows_db[1].nodes[n]
          /\ [TargetIn(workflows_db'[1].nodes) EXCEPT !.status = Target.status]
               = Target]_vars

\* a call refused for the second dependency of a node whose first one is
\* COMPLETED
C4_Witness ==
  /\ ret.op = "update_node_status"
  /\ ret.raised
  /\ ret.status = IN_PROGRESS
  /\ ret.error = "Cannot update node status: dependency 2 is not completed"
  /\ NodeOf(workflows_db[1].nodes, ret.node_id).dependencies = <<1, 2>>
  /\ NodeOf(workflows_db[1].nodes, 1).status = COMPLETED
  /\ NodeOf(workflows_db[1].nodes, 2).status = REJECTED

InitCount(nodes) == Cardinality({i \in 1..Len(nodes) : nodes[i].type = "INIT"})

\* C5: when the workflow has no INIT node or more than one, execute_workflow
\* returns success false and no node status changes; for an actor who passes
\* the earlier checks the message is the structural one, "Multiple INIT nodes
\* found - only one allowed" for more than one.
C5_SingleInit ==
  (RunCalled /\ PreExists /\ InitCount(PreNodes) # 1) =>
    /\ ~ret.raised
    /\ ~ret.ran
    /\ ret.result.success = FALSE
    /\ workflows_db = ret.pre
    /\ (PreWorkflow.owner_id = ret.user_id /\ PreWorkflow.is_active) =>
         ret.result.message =
           IF InitCount(PreNodes) = 0 THEN "No INIT node found in workflow"
           ELSE "Multiple INIT nodes found - only one allowed"

\* a run refused for two INIT nodes, one of them COMPLETED by an earlier run
C5_Witness ==
  /\ RunCalled
  /\ ~ret.ran
  /\ ret.result.message = "Multiple INIT nodes found - only one allowed"
  /\ InitCount(PreNodes) = 2
  /\ \E i \in 1..Len(PreNodes) : PreNodes[i].status = COMPLETED

\* the actor of the last run holds a role with the admin capability
ActorIsAdmin ==
  \E i \in 1..Len(users_db) :
    /\ users_db[i].id = ret.user_id
    /\ \E r \in Range(users_db[i].roles) : "admin" \in roles_db[r].permissions

ActorGrants ==
  IF ret.workflow_id \in DOMAIN ret.pre_perms
     /\ ret.user_id \in DOMAIN ret.pre_perms[ret.workflow_id]
  THEN Range(ret.pre_perms[ret.workflow_id][ret.user_id])
  ELSE {}

ActorPermitted ==
  PreWorkflow.owner_id = ret.user_id \/ ActorIsAdmin \/ "write" \in ActorGrants

Refused(message) ==
  /\ ~ret.raised
  /\ ~ret.ran
  /\ ret.result.success = FALSE
  /\ ret.result.message = message
  /\ workflows_db = ret.pre
  /\ workflow_permissions_db = ret.pre_perms

\* C6: when the workflow does not exist, when the actor is neither its owner
\* nor an admin nor holder of the write grant, or when the workflow is
\* inactive, execute_workflow returns success false with the message of that
\* case and leaves the workflows and the grants as they were.
C6_FailFast ==
  RunCalled =>
    /\ ~PreExists => Refused("Workflow not found")
    /\ (PreExists /\ ~ActorPermitted) =>
         Refused("User does not have permission to execute this workflow")
    /\ (PreExists /\ ActorPermitted /\ ~PreWorkflow.is_active) =>
         Refused("Workflow is not active")

\* an actor holding the read and execute grants, not the write grant, is
\* refused on a workflow whose nodes an earlier run completed
C6_Witness ==
  /\ RunCalled
  /\ ret.user_id = 3
  /\ ~ret.ran
  /\ ret.result.message = "User does not have permission to execute this workflow"
  /\ ActorGrants = {"read", "execute"}
  /\ Len(PreNodes) = 2
  /\ \A i \in 1..Len(PreNodes) : PreNodes[i].status = COMPLETED

\* C7: a run that passes the fail-fast and structural checks returns success
\* true exactly when nodes_failed is empty.
C7_SuccessFlag ==
  RunReturned => (ret.result.success <=> ret.result.nodes_failed = <<>>)

\* a returned run with a rejected node and a node left unresolved
C7_Witness ==
  /\ RunReturned
  /\ ~ret.result.success
  /\ RejectedInRun # {}
  /\ \E i \in 1..Len(PreNodes) : FailedAs(PreNodes[i].id, "Unresolvable dependencies")

\* C8: in a returned run, every node that does not depend, directly or
\* transitively, on a node rejected in that run is executed in it, and the
\* result is marked failed when a node was rejected.
C8_IndependentBranchesRun ==
  RunReturned =>
    /\ \A i \in 1..Len(PreNodes) :
         ~DependsOn(PreNodes, PreNodes[i].id, RejectedInRun)
           => PreNodes[i].id \in Range(ret.executed)
    /\ RejectedInRun # {} => ~ret.result.success

\* a run in which a node was completed after another node had been rejected
C8_Witness ==
  /\ RunReturned
  /\ \E i, j \in 1..Len(ret.executed) :
       /\ i < j
       /\ ret.executed[i] \in RejectedInRun
       /\ \E k \in 1..Len(ret.result.nodes_processed) :
            ret.result.nodes_processed[k].node_id = ret.executed[j]

\* C9: in a returned run, a node that depends, directly or transitively, on a
\* node rejected in that run is recorded in nodes_failed with the error
\* "Unresolvable dependencies", is not moved to IN_PROGRESS and has the status
\* it had before the run.
C9_DependentsNotExecuted ==
  RunReturned =>
    \A i \in 1..Len(PreNodes) :
      DependsOn(PreNodes, PreNodes[i].id, RejectedInRun) =>
        /\ FailedAs(PreNodes[i].id, "Unresolvable dependencies")
        /\ \A k \in 1..Len(ret.writes) :
             ret.writes[k] # <<PreNodes[i].id, IN_PROGRESS>>
        /\ NodeOf(PostNodes, PreNodes[i].id).status = PreNodes[i].status

\* C10: when node B depends on node A and A is REJECTED before the run, a
\* returned run has B in nodes_failed with the error "Unresolvable
\* dependencies" and has not executed B.
C10_ScenarioD ==
  RunReturned =>
    \A a, b \in 1..Len(PreNodes) :
      (/\ PreNodes[a].status = REJECTED
       /\ PreNodes[a].id \in Range(PreNodes[b].dependencies)) =>
        /\ FailedAs(PreNodes[b].id, "Unresolvable dependencies")
        /\ PreNodes[b].id \notin Range(ret.executed)

\* the message of the trigger the last run was given, "" without a trigger
TriggerMessage ==
  IF ret.result.trigger.present THEN ret.result.trigger.message ELSE ""

\* C11: in a returned run the first executed node is the first record of
\* nodes_processed and its input_message is the trigger's message ("" without
\* a trigger); the input_message of every later record is the output_message
\* of the record before it, whatever was rejected in between; final_message
\* is the output_message of the last record.
C11_MessageThreading ==
  RunReturned =>
    /\ ret.result.nodes_processed # <<>>
    /\ ret.result.nodes_processed[1].node_id = ret.executed[1]
    /\ ret.result.nodes_processed[1].input_message = TriggerMessage
    /\ \A i \in 2..Len(ret.result.nodes_processed) :
         ret.result.nodes_processed[i].input_message
           = ret.result.nodes_processed[i - 1].output_message
    /\ ret.result.final_message
         = ret.result.nodes_processed[Len(ret.result.nodes_processed)].output_message

\* a run in which a node was rejected between the INIT node and a
\* MODIFY_MESSAGE node, which still received "Hi"
C11_Witness ==
  /\ RunReturned
  /\ Len(ret.executed) = 3
  /\ ret.executed[2] \in RejectedInRun
  /\ Len(ret.result.nodes_processed) = 2
  /\ ret.result.nodes_processed[2].node_id = ret.executed[3]
  /\ ret.result.nodes_processed[2].input_message = "Hi"
  /\ ret.result.nodes_processed[2].output_message = "Hi Hello"
  /\ ret.result.final_message = "Hi Hello"

\* the records of nodes_failed that are the failure of an executed node
ExecutionFailures ==
  {k \in 1..Len(ret.result.nodes_failed) :
     ret.result.nodes_failed[k].error # "Unresolvable dependencies"}

\* C12: when a run returns, every node in nodes_processed is COMPLETED, every
\* node rejected during execution is REJECTED and has exactly one record in
\* nodes_failed, which carries its error, and no node the run moved to
\* IN_PROGRESS is still IN_PROGRESS.
C12_StatusRecordAgreement ==
  RunReturned =>
    /\ \A i \in 1..Len(ret.result.nodes_processed) :
         NodeOf(PostNodes, ret.result.nodes_processed[i].node_id).status = COMPLETED
    /\ \A k \in ExecutionFailures :
         /\ ret.result.nodes_failed[k].node_id \in RejectedInRun
         /\ NodeOf(PostNodes, ret.result.nodes_failed[k].node_id).status = REJECTED
    /\ \A id \in RejectedInRun :
         /\ Cardinality({k \in 1..Len(ret.result.nodes_failed) :
                           ret.result.nodes_failed[k].node_id = id}) = 1
         /\ \E k \in ExecutionFailures : ret.result.nodes_failed[k].node_id = id
    /\ \A k \in 1..Len(ret.writes) :
         ret.writes[k][2] = IN_PROGRESS
           => NodeOf(PostNodes, ret.writes[k][1]).status # IN_PROGRESS

\* a run that completed two nodes and rejected a third after the first
C12_Witness ==
  /\ RunReturned
  /\ ~ret.result.success
  /\ Len(ret.result.nodes_processed) = 2
  /\ Len(ret.result.nodes_failed) = 1
  /\ ret.executed[2] = ret.result.nodes_failed[1].node_id
  /\ NodeOf(PostNodes, ret.executed[1]).status = COMPLETED
  /\ NodeOf(PostNodes, ret.executed[2]).status = REJECTED
  /\ NodeOf(PostNodes, ret.executed[3]).status = COMPLETED

\* C13: on a workflow that consists of one INIT node and nothing else, a run
\* by a permitted actor on the active workflow returns success true, leaves
\* the INIT node COMPLETED and has final_message equal to the trigger's
\* message.
C13_SingleInitSucceeds ==
  (/\ RunCalled
   /\ PreExists
   /\ Len(PreNodes) = 1
   /\ PreNodes[1].type = "INIT"
   /\ ActorPermitted
   /\ PreWorkflow.is_active)
  =>
    /\ ~ret.raised
    /\ ret.ran
    /\ ret.result.success
    /\ ret.result.nodes_failed = <<>>
    /\ Len(PostNodes) = 1
    /\ PostNodes[1].status = COMPLETED
    /\ ret.result.final_message = TriggerMessage

\* the holder of a write grant runs a workflow of one INIT node with "Hi"
C13_Witness ==
  /\ RunCalled
  /\ PreExists
  /\ Len(PreNodes) = 1
  /\ PreNodes[1].type = "INIT"
  /\ ret.user_id = 3
  /\ ret.ran
  /\ ret.result.trigger.present
  /\ ret.result.success
  /\ ret.result.final_message = "Hi"

RECURSIVE Hellos(_)
Hellos(n) == IF n = 0 THEN "" ELSE " Hello" \o Hellos(n - 1)

RecordsOfType(type) ==
  SelectSeq(ret.result.nodes_processed, LAMBDA r : r.type = type)

\* C14: in a returned run every MODIFY_MESSAGE record has its input followed
\* by " Hello" as output, every record of another type has its input as
\* output, and final_message is the trigger's message followed by one
\* " Hello" for each MODIFY_MESSAGE record.
C14_ModifyAppendsHello ==
  RunReturned =>
    /\ \A i \in 1..Len(ret.result.nodes_processed) :
         ret.result.nodes_processed[i].output_message =
           IF ret.result.nodes_processed[i].type = "MODIFY_MESSAGE"
           THEN ret.result.nodes_processed[i].input_message \o " Hello"
           ELSE ret.result.nodes_processed[i].input_message
    /\ ret.result.final_message =
         TriggerMessage \o Hellos(Len(RecordsOfType("MODIFY_MESSAGE")))

\* INIT then MODIFY_MESSAGE with the message "Hi": "Hi Hello", both nodes
\* COMPLETED, success true
C14_Witness ==
  /\ RunReturned
  /\ Len(PreNodes) = 2
  /\ Len(ret.result.nodes_processed) = 2
  /\ ret.result.nodes_processed[1].type = "INIT"
  /\ ret.result.nodes_processed[2].type = "MODIFY_MESSAGE"
  /\ NodeOf(PreNodes, ret.result.nodes_processed[2].node_id).dependencies
       = <<ret.result.nodes_processed[1].node_id>>
  /\ TriggerMessage = "Hi"
  /\ ret.result.final_message = "Hi Hello"
  /\ \A i \in 1..Len(PostNodes) : PostNodes[i].status = COMPLETED
  /\ ret.result.success

\* the identity the CONDITION check of the last run looked at
TriggerIdentity ==
  IF ret.result.trigger.present THEN ret.result.trigger.userId ELSE ""

\* C15: in a returned run, a CONDITION node given to execute_node is
\* COMPLETED and recorded in nodes_processed when the trigger's userId is
\* "John"; with another userId or without a trigger it is REJECTED, recorded
\* in nodes_failed with an error that quotes the identity, success is false
\* and the nodes completed in the run are still COMPLETED.
C15_ConditionGate ==
  RunReturned =>
    \A i \in 1..Len(ret.executed) :
      NodeOf(PreNodes, ret.executed[i]).type = "CONDITION" =>
        IF ret.result.trigger.present /\ ret.result.trigger.userId = "John"
        THEN /\ NodeOf(PostNodes, ret.executed[i]).status = COMPLETED
             /\ \E k \in 1..Len(ret.result.nodes_processed) :
                  ret.result.nodes_processed[k].node_id = ret.executed[i]
             /\ \A k \in 1..Len(ret.result.nodes_failed) :
                  ret.result.nodes_failed[k].node_id # ret.executed[i]
        ELSE /\ NodeOf(PostNodes, ret.executed[i]).status = REJECTED
             /\ FailedAs(ret.executed[i],
                         "Condition failed: username '" \o TriggerIdentity
                           \o "' is not 'John'")
             /\ \A k \in 1..Len(ret.result.nodes_processed) :
                  /\ ret.result.nodes_processed[k].node_id # ret.executed[i]
                  /\ NodeOf(PostNodes, ret.result.nodes_processed[k].node_id).status
                       = COMPLETED
             /\ ~ret.result.success

\* INIT then CONDITION with the trigger of Alice: the CONDITION node is
\* REJECTED with an error naming Alice, the INIT node is COMPLETED
C15_Witness ==
  /\ RunReturned
  /\ Len(PreNodes) = 2
  /\ TriggerIdentity = "Alice"
  /\ Len(ret.executed) = 2
  /\ NodeOf(PreNodes, ret.executed[1]).type = "INIT"
  /\ NodeOf(PreNodes, ret.executed[2]).type = "CONDITION"
  /\ NodeOf(PostNodes, ret.executed[1]).status = COMPLETED
  /\ NodeOf(PostNodes, ret.executed[2]).status = REJECTED
  /\ FailedAs(ret.executed[2], "Condition failed: username 'Alice' is not 'John'")
  /\ ~ret.result.success

\* C16: in a returned run message_flow has one entry for each STORE_MESSAGE
\* record of nodes_processed, in the same order, with that node's id, its
\* input message and the trigger's userId (the executing actor without a
\* trigger); a STORE_MESSAGE record has its input as output.
C16_StoreMessageFlow ==
  RunReturned =>
    /\ Len(ret.result.message_flow) = Len(RecordsOfType("STORE_MESSAGE"))
    /\ \A i \in 1..Len(ret.result.message_flow) :
         /\ ret.result.message_flow[i].node_id
              = RecordsOfType("STORE_MESSAGE")[i].node_id
         /\ ret.result.message_flow[i].action = "stored"
         /\ ret.result.message_flow[i].data.message
              = RecordsOfType("STORE_MESSAGE")[i].input_message
         /\ ret.result.message_flow[i].data.userId
              = IF ret.result.trigger.present
                THEN <<"trigger", ret.result.trigger.userId>>
                ELSE <<"actor", ret.user_id>>
         /\ RecordsOfType("STORE_MESSAGE")[i].output_message
              = RecordsOfType("STORE_MESSAGE")[i].input_message

\* a STORE_MESSAGE node run after a MODIFY_MESSAGE node stores "Hi Hello"
\* under the trigger's identity
C16_Witness ==
  /\ RunReturned
  /\ Len(ret.result.nodes_processed) = 3
  /\ ret.result.nodes_processed[2].type = "MODIFY_MESSAGE"
  /\ ret.result.nodes_processed[3].type = "STORE_MESSAGE"
  /\ Len(ret.result.message_flow) = 1
  /\ ret.result.message_flow[1].node_id = ret.result.nodes_processed[3].node_id
  /\ ret.result.message_flow[1].data.message = "Hi Hello"
  /\ ret.result.message_flow[1].data.userId = <<"trigger", "John">>
  /\ ret.result.final_message = "Hi Hello"

\* the INIT node of the workflow the last run was given
PreInitNode == PreNodes[CHOOSE i \in 1..Len(PreNodes) : PreNodes[i].type = "INIT"]

\* C17: in a run that passes validation the INIT node is the first node given
\* to execute_node, wherever it is in the node list; when its execution fails
\* the call returns a result with success false whose only nodes_failed
\* record is the INIT node's, no other node is executed and no other node's
\* status changes.
C17_InitFirst ==
  (RunCalled /\ ret.ran) =>
    /\ ret.executed[1] = PreInitNode.id
    /\ (\A k \in 1..Len(ret.result.nodes_processed) :
          ret.result.nodes_processed[k].node_id # PreInitNode.id)
       =>
         /\ ~ret.raised
         /\ ~ret.result.success
         /\ Len(ret.result.nodes_failed) = 1
         /\ ret.result.nodes_failed[1].node_id = PreInitNode.id
         /\ ret.executed = <<PreInitNode.id>>
         /\ \A i \in 1..Len(PreNodes) :
              PreNodes[i].id # PreInitNode.id
                => NodeOf(PostNodes, PreNodes[i].id) = PreNodes[i]

\* the workflow that the call of add_node_to_workflow recorded in ret' names,
\* in the store the call started from
AddTarget ==
  workflows_db[CHOOSE w \in 1..Len(workflows_db) :
                 workflows_db[w].id = ret'.workflow_id]

MissingIn(nodes, d) == \A n \in 1..Len(nodes) : nodes[n].id # d

\* C18: add_node_to_workflow on an existing workflow with a dependency id
\* that is not the id of a node of that workflow raises an error naming the
\* first such id, and the workflows, their node lists and next_node_id are as
\* they were; with every dependency present the node is added.
C18_MissingDependency ==
  [][(/\ ret'.op = "add_node_to_workflow"
      /\ \E w \in 1..Len(workflows_db) : workflows_db[w].id = ret'.workflow_id)
     =>
     IF \E i \in 1..Len(ret'.dependencies) :
          MissingIn(AddTarget.nodes, ret'.dependencies[i])
     THEN /\ ret'.raised
          /\ \E i \in 1..Len(ret'.dependencies) :
               /\ MissingIn(AddTarget.nodes, ret'.dependencies[i])
               /\ \A j \in 1..(i - 1) :
                    ~MissingIn(AddTarget.nodes, ret'.dependencies[j])
               /\ ret'.error = "Dependency node "
                                \o ToString(ret'.dependencies[i])
                                \o " does not exist in workflow"
          /\ workflows_db' = workflows_db
          /\ next_node_id' = next_node_id
     ELSE /\ ~ret'.raised
          /\ ret'.node_id = next_node_id
          /\ next_node_id' = next_node_id + 1]_vars

\* a call refused for node 2, which is a node of the other workflow, after
\* node 1 of this workflow was found
C18_Witness ==
  /\ ret.op = "add_node_to_workflow"
  /\ ret.raised
  /\ ret.workflow_id = 1
  /\ ret.dependencies = <<1, 2>>
  /\ ret.error = "Dependency node 2 does not exist in workflow"
  /\ Len(workflows_db) = 2
  /\ NodeIds(workflows_db[1].nodes) = {1}
  /\ NodeIds(workflows_db[2].nodes) = {2}
  /\ next_node_id = 3

\* the last call was one of the three permission checks
PermissionAsked ==
  ret.op \in {"check_read_permission", "check_write_permission",
              "check_execute_permission"}

\* the user the last check was asked about owns the workflow it named
AskedByOwner ==
  \E w \in 1..Len(workflows_db) :
    /\ workflows_db[w].id = ret.workflow_id
    /\ workflows_db[w].owner_id = ret.user_id

\* the user the last check was asked about holds a role of that name
AskedHoldsRoleNamed(name) ==
  \E i \in 1..Len(users_db) :
    /\ users_db[i].id = ret.user_id
    /\ \E r \in Range(users_db[i].roles) : roles_db[r].name = name

\* C19: check_read_permission, check_write_permission and
\* check_execute_permission return true for the owner of the workflow in
\* every state of the users, the roles and the grants.
C19_OwnerAccess == (PermissionAsked /\ AskedByOwner) => ret.value = TRUE

\* check_execute_permission is true for an owner who has no admin role and
\* whose grants have all been revoked
C19_Witness ==
  /\ ret.op = "check_execute_permission"
  /\ AskedByOwner
  /\ ret.value = TRUE
  /\ ~AskedHoldsRoleNamed("admin")
  /\ ret.workflow_id \in DOMAIN workflow_permissions_db
  /\ ret.user_id \in DOMAIN workflow_permissions_db[ret.workflow_id]
  /\ workflow_permissions_db[ret.workflow_id][ret.user_id] = <<>>

\* C20: check_read_permission, check_write_permission and
\* check_execute_permission return true on every workflow id for a user who
\* holds the role named "admin", owner or not, with or without grants.
C20_AdminAccess ==
  (PermissionAsked /\ AskedHoldsRoleNamed("admin")) => ret.value = TRUE

\* check_write_permission is true for the default admin on a workflow that
\* another user owns and on which nobody holds a grant
C20_Witness ==
  /\ ret.op = "check_write_permission"
  /\ ret.user_id = default_admin.id
  /\ AskedHoldsRoleNamed("admin")
  /\ Len(workflows_db) = 1
  /\ ret.workflow_id = workflows_db[1].id
  /\ ~AskedByOwner
  /\ workflow_permissions_db = <<>>
  /\ ret.value = TRUE

\* the workflow the last check named exists
AskedExists ==
  \E w \in 1..Len(workflows_db) : workflows_db[w].id = ret.workflow_id

AskedWorkflow ==
  workflows_db[CHOOSE w \in 1..Len(workflows_db) :
                 workflows_db[w].id = ret.workflow_id]

\* the names of the roles of the user the last check was asked about
AskedRoleNames ==
  {roles_db[r].name :
     r \in UNION {Range(users_db[i].roles) :
                    i \in {j \in 1..Len(users_db) : users_db[j].id = ret.user_id}}}

\* the grants of that user on that workflow
AskedGrants ==
  IF /\ ret.workflow_id \in DOMAIN workflow_permissions_db
     /\ ret.user_id \in DOMAIN workflow_permissions_db[ret.workflow_id]
  THEN Range(workflow_permissions_db[ret.workflow_id][ret.user_id])
  ELSE {}

\* the last call was a check asked about an existing workflow for a user who
\* neither owns it nor holds the admin role
AskedByOther ==
  /\ PermissionAsked
  /\ AskedExists
  /\ ~AskedByOwner
  /\ ~AskedHoldsRoleNamed("admin")

\* C21: for a user who is neither admin nor owner, a role name in write_roles
\* makes check_write_permission and check_execute_permission true, and a
\* role name in read_roles or write_roles makes check_read_permission true.
C21_RoleBasedAccess ==
  AskedByOther =>
    /\ (/\ ret.op \in {"check_write_permission", "check_execute_permission"}
        /\ AskedRoleNames \cap Range(AskedWorkflow.write_roles) # {})
         => ret.value = TRUE
    /\ (/\ ret.op = "check_read_permission"
        /\ AskedRoleNames \cap (Range(AskedWorkflow.read_roles)
                                  \cup Range(AskedWorkflow.write_roles)) # {})
         => ret.value = TRUE

\* C22: a user who is not the owner, holds no admin role and has no grant on
\* the workflow gets false from check_read_permission, check_write_permission
\* and check_execute_permission, whatever the user's roles permit in general.
C22_NoAccessByDefault ==
  (/\ PermissionAsked
   /\ ~AskedByOwner
   /\ ~AskedHoldsRoleNamed("admin")
   /\ AskedGrants = {})
    => ret.value = FALSE

\* check_read_permission is false for a user whose role carries "read" and is
\* named in the write_roles of an existing workflow of another owner
C22_Witness ==
  /\ ret.op = "check_read_permission"
  /\ AskedByOther
  /\ AskedGrants = {}
  /\ \E i \in 1..Len(users_db) :
       /\ users_db[i].id = ret.user_id
       /\ \E r \in Range(users_db[i].roles) : "read" \in roles_db[r].permissions
  /\ "user" \in AskedRoleNames \cap Range(AskedWorkflow.write_roles)
  /\ ret.value = FALSE

\* C23: for a user who is neither owner nor admin, check_execute_permission
\* is false whenever the user holds neither read nor write on the workflow,
\* an "execute" grant notwithstanding, and true once the user holds
\* "execute" together with read or write.
C23_ExecuteNeedsRead ==
  (/\ ret.op = "check_execute_permission"
   /\ ~AskedByOwner
   /\ ~AskedHoldsRoleNamed("admin"))
    => /\ AskedGrants \cap {"read", "write"} = {} => ret.value = FALSE
       /\ ("execute" \in AskedGrants /\ AskedGrants \cap {"read", "write"} # {})
            => ret.value = TRUE

\* C24: in every state of the users, roles, workflows and grants,
\* check_execute_permission returns what check_write_permission returns, for
\* every user and every workflow id.
C24_ExecuteIsWrite ==
  \A user_id \in ActorIds, workflow_id \in CheckWorkflowIds :
    check_execute_permission(workflows_db, users_db, workflow_permissions_db,
                             user_id, workflow_id)
      = check_write_permission(workflows_db, users_db, workflow_permissions_db,
                               user_id, workflow_id)

\* C25: when check_execute_permission is true for the actor on an existing,
\* active workflow, execute_workflow for that actor does not return the
\* permission failure: it goes on to the structural validation and the nodes.
C25_ExecuteCheckAdmits ==
  (/\ RunCalled
   /\ PreExists
   /\ PreWorkflow.is_active
   /\ check_execute_permission(ret.pre, users_db, ret.pre_perms,
                               ret.user_id, ret.workflow_id))
    => ~Refused("User does not have permission to execute this workflow")

\* C26: for a user who is neither owner nor admin, holding only the read
\* grant gives check_read_permission true and check_write_permission false;
\* holding read and write gives check_write_permission true; and holding
\* only write, after a revoke of read that returned true, gives
\* check_write_permission true and check_read_permission false.
C26_GrantRevokePerCapability ==
  /\ AskedByOther =>
       /\ AskedGrants = {"read"} =>
            /\ ret.op = "check_read_permission" => ret.value = TRUE
            /\ ret.op = "check_write_permission" => ret.value = FALSE
       /\ AskedGrants = {"read", "write"} =>
            (ret.op = "check_write_permission" => ret.value = TRUE)
       /\ AskedGrants = {"write"} =>
            /\ ret.op = "check_write_permission" => ret.value = TRUE
            /\ ret.op = "check_read_permission" => ret.value = FALSE
  /\ (ret.op = "revoke_workflow_permission" /\ ret.value = TRUE) =>
       ret.permission \notin
         Range(user_perms(workflow_permissions_db, ret.workflow_id, ret.user_id))

\* C27: grant_workflow_permission with a capability other than read, write
\* and execute returns false and leaves the grant store as it was, with no
\* entry made for the workflow or the user, so that each of the three checks
\* returns for every user and workflow what it returned before the call.
C27_InvalidGrant ==
  [][(/\ ret'.op = "grant_workflow_permission"
      /\ ret'.permission \notin {"read", "write", "execute"})
       => /\ ret'.value = FALSE
          /\ workflow_permissions_db' = workflow_permissions_db
          /\ \A user_id \in ActorIds, workflow_id \in CheckWorkflowIds :
               /\ check_read_permission(workflows_db', users_db',
                                        workflow_permissions_db',
                                        user_id, workflow_id)
                    = check_read_permission(workflows_db, users_db,
                                            workflow_permissions_db,
                                            user_id, workflow_id)
               /\ check_write_permission(workflows_db', users_db',
                                         workflow_permissions_db',
                                         user_id, workflow_id)
                    = check_write_permission(workflows_db, users_db,
                                             workflow_permissions_db,
                                             user_id, workflow_id)
               /\ check_execute_permission(workflows_db', users_db',
                                           workflow_permissions_db',
                                           user_id, workflow_id)
                    = check_execute_permission(workflows_db, users_db,
                                               workflow_permissions_db,
                                               user_id, workflow_id)]_vars

\* the grant of another capability was refused for an existing user on an
\* existing workflow that has no entry in the grant store
C27_Witness ==
  /\ ret.op = "grant_workflow_permission"
  /\ ret.permission \notin {"read", "write", "execute"}
  /\ ret.value = FALSE
  /\ \E w \in 1..Len(workflows_db) : workflows_db[w].id = ret.workflow_id
  /\ \E i \in 1..Len(users_db) : users_db[i].id = ret.user_id
  /\ ret.workflow_id \notin DOMAIN workflow_permissions_db

C29_StatusLifeCycle ==
  [][/\ (ret'.op = "add_node_to_workflow" /\ ~ret'.raised) =>
          \A w \in 1..Len(workflows_db') :
            \A n \in 1..Len(workflows_db'[w].nodes) :
              n > Len(workflows_db[w].nodes)
                => workflows_db'[w].nodes[n].status = PENDING
     /\ ret'.op = "update_node_status" =>
          \A w \in 1..Len(workflows_db) :
            \A n \in 1..Len(workflows_db[w].nodes) :
              workflows_db'[w].nodes[n].status # workflows_db[w].nodes[n].status
                => /\ workflows_db[w].nodes[n].status = PENDING
                   /\ workflows_db'[w].nodes[n].status = IN_PROGRESS
     /\ (ret'.op = "execute_workflow" /\ ret'.ran) =>
          \A k \in 1..Len(ret'.writes) :
            Terminal(ret'.writes[k][2])
              => /\ k > 1
                 /\ ret'.writes[k - 1] = <<ret'.writes[k][1], IN_PROGRESS>>]_vars

\* the store the last run started from with every node status PENDING
PreReset ==
  [w \in 1..Len(ret.pre) |->
     [ret.pre[w] EXCEPT !.nodes =
        [n \in 1..Len(ret.pre[w].nodes) |->
           [ret.pre[w].nodes[n] EXCEPT !.status = PENDING]]]]

\* the trigger the last run was given (a run refused before its result
\* record was made does not look at it)
RunTrigger == IF ret.ran THEN ret.result.trigger ELSE NoTrigger

\* the same call of execute_workflow on the workflow with PENDING nodes
RunOfReset ==
  execute_workflow(PreReset, users_db, ret.pre_perms, ret.workflow_id,
                   ret.user_id, RunTrigger)

\* C30: the outcome of execute_workflow is decided by the nodes of the
\* workflow (types, dependencies, order), the actor and the trigger: a run
\* from any node statuses ends as the run of the same workflow, actor and
\* trigger from PENDING nodes does, with the same success flag,
\* nodes_processed, nodes_failed and final_message.
C30_DeterministicTrace ==
  RunCalled =>
    /\ RunOfReset.raised = ret.raised
    /\ RunOfReset.ran = ret.ran
    /\ RunOfReset.result.success = ret.result.success
    /\ (ret.ran /\ ~ret.raised) =>
         /\ RunOfReset.result.nodes_processed = ret.result.nodes_processed
         /\ RunOfReset.result.nodes_failed = ret.result.nodes_failed
         /\ RunOfReset.result.final_message = ret.result.final_message

\* C31: after any sequence of create_workflow and add_node_to_workflow calls,
\* every dependency of every node is the id of a node that stands before it
\* in the node list of the same workflow, and no two nodes of the store have
\* the same id; so no node depends on itself and no dependencies form a
\* cycle.
C31_WellFoundedGraph ==
  /\ \A w \in 1..Len(workflows_db) :
       \A n \in 1..Len(workflows_db[w].nodes) :
         \A d \in Range(workflows_db[w].nodes[n].dependencies) :
           /\ d # workflows_db[w].nodes[n].id
           /\ \E m \in 1..(n - 1) : workflows_db[w].nodes[m].id = d
  /\ \A w1, w2 \in 1..Len(workflows_db) :
       \A n1 \in 1..Len(workflows_db[w1].nodes) :
         \A n2 \in 1..Len(workflows_db[w2].nodes) :
           workflows_db[w1].nodes[n1].id = workflows_db[w2].nodes[n2].id
             => (w1 = w2 /\ n1 = n2)

\* with two workflows in the store, a third node was added to the first
\* with its two dependencies given in descending order
C31_Witness ==
  /\ Len(workflows_db) = 2
  /\ Len(workflows_db[1].nodes) = 3
  /\ workflows_db[1].nodes[3].dependencies = <<2, 1>>
  /\ ret.op = "add_node_to_workflow"
  /\ ~ret.raised
  /\ ret.node_id = workflows_db[1].nodes[3].id

\* the last run was the owner's, on a workflow whose nodes are a node without
\* dependencies and a node depending on it
TwoNodeChainRun ==
  /\ RunCalled
  /\ PreExists
  /\ PreWorkflow.owner_id = ret.user_id
  /\ Len(PreNodes) = 2
  /\ PreNodes[1].dependencies = <<>>
  /\ PreNodes[2].dependencies = <<PreNodes[1].id>>

ProcessedIds ==
  [i \in 1..Len(ret.result.nodes_processed) |->
     ret.result.nodes_processed[i].node_id]

C33_RefusedOnlyWhenRaced ==
  \A p \in Callers :
    \A i \in 1..Len(calls[p].refused) :
      calls[p].refused[i].dep_id \in calls[p].disturbed

\* the guard refused a node whose dependencies the call had processed, its
\* dependency having been moved out of COMPLETED by the other call, and the
\* error left execute_workflow
C33_Witness ==
  \E p \in Callers :
    /\ calls[p].pc = "raised"
    /\ calls[p].refused # <<>>
    /\ calls[p].refused[1].dep_id \in calls[p].processed
    /\ calls[p].refused[1].dep_id \in calls[p].disturbed
    /\ \E q \in Callers \ {p} : InFlight(calls[q])

\* the nodes of the last run recorded with "Unresolvable dependencies"
UnresolvableIds ==
  {ret.result.nodes_failed[k].node_id :
     k \in {j \in 1..Len(ret.result.nodes_failed) :
              ret.result.nodes_failed[j].error = "Unresolvable dependencies"}}

\* C34: a run that enters the round loop ends after at most as many rounds
\* as the workflow has nodes (its nodes other than INIT, plus one): every
\* round but a last one without progress executes a node, and at the end
\* every node was executed or is recorded with "Unresolvable dependencies".
C34_RoundsTerminate ==
  RunReturned =>
    /\ ret.rounds <= (Len(PreNodes) - 1) + 1
    /\ ret.rounds <= (Len(ret.executed) - 1)
                       + (IF UnresolvableIds = {} THEN 0 ELSE 1)
    /\ \A n \in 1..Len(PreNodes) :
         PreNodes[n].id \in Range(ret.executed) \cup UnresolvableIds
    /\ Range(ret.executed) \cap UnresolvableIds = {}

\* a run of two rounds on three nodes: the first round executes one node,
\* the second executes nothing and records the node left as unresolvable
C34_Witness ==
  /\ RunReturned
  /\ Len(PreNodes) = 3
  /\ ret.rounds = 2
  /\ Len(ret.executed) = 2
  /\ Cardinality(UnresolvableIds) = 1

\* C35: in every run that reaches the nodes, the nodes executed after the
\* INIT node run in increasing position of the workflow's node list,
\* whichever of them fail and however many rounds the run takes.
C35_DefinitionOrder ==
  (ret.op = "execute_workflow" /\ ret.ran) =>
    \A i, j \in 2..Len(ret.executed) :
      i < j =>
        \A a, b \in 1..Len(PreNodes) :
          (PreNodes[a].id = ret.executed[i] /\ PreNodes[b].id = ret.executed[j])
            => a < b

\* a run of two rounds: the first node after INIT fails and ends the first
\* round, the rescan in the second round executes the node defined after it
C35_Witness ==
  /\ RunReturned
  /\ ret.rounds = 2
  /\ Len(ret.executed) = 3
  /\ ret.executed[2] \in RejectedInRun
  /\ Len(ret.result.nodes_processed) = 2
  /\ ret.executed[2] < ret.executed[3]

\* the number of records of the sequence recs that name the node node_id
RecordsOf(recs, node_id) ==
  Cardinality({k \in 1..Len(recs) : recs[k].node_id = node_id})

\* C36: a run that passes the fail-fast checks raises only at its INIT node;
\* when INIT completes the run returns, every node of the workflow has
\* exactly one record in nodes_processed and nodes_failed together, and the
\* two lists hold as many records as the workflow has nodes.
C36_EveryNodeOnce ==
  /\ (ret.op = "execute_workflow" /\ ret.ran /\ ret.raised)
       => Len(ret.executed) = 1
  /\ (RunReturned /\ ret.result.nodes_processed # <<>>) =>
       /\ \A n \in 1..Len(PreNodes) :
            RecordsOf(ret.result.nodes_processed, PreNodes[n].id)
              + RecordsOf(ret.result.nodes_failed, PreNodes[n].id) = 1
       /\ Len(ret.result.nodes_processed) + Len(ret.result.nodes_failed)
            = Len(PreNodes)

\* INIT completes, the second node fails when executed and the third, which
\* depends on it, is recorded as unresolvable
C36_Witness ==
  /\ RunReturned
  /\ Len(PreNodes) = 3
  /\ Len(ret.result.nodes_processed) = 1
  /\ Len(ret.result.nodes_failed) = 2
  /\ ret.result.nodes_failed[1].error # "Unresolvable dependencies"
  /\ ret.result.nodes_failed[2].error = "Unresolvable dependencies"

\* C37: in every reachable state a node whose status is In Progress,
\* Completed or Rejected has all its dependencies in status Completed.
C37_DependenciesCompleted ==
  \A w \in 1..Len(workflows_db) :
    \A n \in 1..Len(workflows_db[w].nodes) :
      workflows_db[w].nodes[n].status # PENDING =>
        \A d \in 1..Len(workflows_db[w].nodes[n].dependencies) :
          \A m \in 1..Len(workflows_db[w].nodes) :
            workflows_db[w].nodes[m].id = workflows_db[w].nodes[n].dependencies[d]
              => workflows_db[w].nodes[m].status = COMPLETED

\* no stored capability list holds a capability twice
NoCapabilityTwice ==
  \A w \in DOMAIN workflow_permissions_db :
    \A u \in DOMAIN workflow_permissions_db[w] :
      \A i, j \in 1..Len(workflow_permissions_db[w][u]) :
        workflow_permissions_db[w][u][i] = workflow_permissions_db[w][u][j]
          => i = j

\* C38: the grant store changes only in steps of grant_workflow_permission
\* and revoke_workflow_permission (the checks, the two listings and
\* execute_workflow leave it as it is), and no stored list holds a
\* capability twice.
C38_StoreFrame ==
  /\ []NoCapabilityTwice
  /\ [][ret'.op \notin {"grant_workflow_permission",
                        "revoke_workflow_permission"}
          => workflow_permissions_db' = workflow_permissions_db]_vars

\* get_user_workflow_permissions asked for a user who is neither the owner
\* nor an admin and holds a stored read grant: the listing is that grant
C38_Witness ==
  /\ ret.op = "get_user_workflow_permissions"
  /\ ~IsOwner(workflows_db, ret.user_id, ret.workflow_id)
  /\ ~validate_user_role(users_db, ret.user_id, "admin")
  /\ get_user_permissions(users_db, ret.user_id) # {}
  /\ ret.workflow_id \in DOMAIN workflow_permissions_db
  /\ ret.user_id \in DOMAIN workflow_permissions_db[ret.workflow_id]
  /\ workflow_permissions_db[ret.workflow_id][ret.user_id] = <<"read">>
  /\ ret.value = {"read"}

\* the results of the three checks for every actor and workflow, on the
\* grant store perms
CheckResults(perms) ==
  [a \in ActorIds, w \in CheckWorkflowIds |->
     <<check_read_permission(workflows_db, users_db, perms, a, w),
       check_write_permission(workflows_db, users_db, perms, a, w),
       check_execute_permission(workflows_db, users_db, perms, a, w)>>]

\* on the store of this state: a grant of a capability the user does not
\* hold followed by its revocation gives the check results of this state
RoundTripRestores ==
  \A w \in WorkflowIds, u \in RoleGranteeIds, p \in {"read", "write", "execute"} :
    p \notin Range(user_perms(workflow_permissions_db, w, u)) =>
      LET g == grant_workflow_permission(workflow_permissions_db, w, u, p)
          r == revoke_workflow_permission(g.perms, w, u, p)
      IN  /\ g.value /\ r.value
          /\ p \in Range(user_perms(g.perms, w, u))
          /\ CheckResults(r.perms) = CheckResults(workflow_permissions_db)

\* a step of grant_workflow_permission for a capability already held
GrantOfHeld ==
  /\ ret'.op = "grant_workflow_permission"
  /\ ret'.permission \in
       Range(user_perms(workflow_permissions_db, ret'.workflow_id, ret'.user_id))

\* a step of revoke_workflow_permission for a capability not held
RevokeOfNotHeld ==
  /\ ret'.op = "revoke_workflow_permission"
  /\ ret'.permission \notin
       Range(user_perms(workflow_permissions_db, ret'.workflow_id, ret'.user_id))

\* C39: granting a capability that is not held and then revoking it restores
\* the results of the three checks for every actor and workflow; a grant of
\* a capability already held returns true and leaves the store as it is; a
\* revocation of a capability not held returns false and leaves the store as
\* it is.
C39_GrantRevokeRoundTrip ==
  /\ []RoundTripRestores
  /\ [][/\ GrantOfHeld =>
             ret'.value /\ workflow_permissions_db' = workflow_permissions_db
        /\ RevokeOfNotHeld =>
             ~ret'.value /\ workflow_permissions_db' = workflow_permissions_db]_vars

\* the end of a round trip next to a capability that stays: the user holds
\* write, read was granted and has just been revoked
C39_Witness ==
  /\ ret.op = "revoke_workflow_permission"
  /\ ret.value
  /\ ret.permission = "read"
  /\ ret.workflow_id \in DOMAIN workflow_permissions_db
  /\ ret.user_id \in DOMAIN workflow_permissions_db[ret.workflow_id]
  /\ workflow_permissions_db[ret.workflow_id][ret.user_id] = <<"write">>
  /\ ~validate_user_role(users_db, ret.user_id, "admin")
  /\ check_write_permission(workflows_db, users_db, workflow_permissions_db,
                            ret.user_id, ret.workflow_id)

\* the nodes of the workflow the statistics were asked of
StatsNodes ==
  workflows_db[get_workflow_by_id(workflows_db, ret.workflow_id)[1]].nodes

\* the number of those nodes in the given status
NodesIn(status) ==
  Cardinality({n \in 1..Len(StatsNodes) : StatsNodes[n].status = status})

\* C40: the statistics returned for a workflow count every node once: the
\* four status counts add up to total_nodes, each is the number of nodes in
\* that status, and is_complete is true exactly when the workflow has a
\* node and all its nodes are Completed.
C40_StatisticsPartition ==
  (ret.op = "get_workflow_statistics" /\ ret.value # <<>>) =>
    /\ ret.value[1].total_nodes = Len(StatsNodes)
    /\ ret.value[1].completed_nodes + ret.value[1].in_progress_nodes
         + ret.value[1].pending_nodes + ret.value[1].rejected_nodes
         = ret.value[1].total_nodes
    /\ ret.value[1].completed_nodes = NodesIn(COMPLETED)
    /\ ret.value[1].in_progress_nodes = NodesIn(IN_PROGRESS)
    /\ ret.value[1].pending_nodes = NodesIn(PENDING)
    /\ ret.value[1].rejected_nodes = NodesIn(REJECTED)
    /\ ret.value[1].is_complete <=>
         /\ Len(StatsNodes) >= 1
         /\ \A n \in 1..Len(StatsNodes) : StatsNodes[n].status = COMPLETED

\* the statistics of test_get_workflow_statistics: three nodes, the first
\* Completed, the second In Progress, the third Pending
C40_Witness ==
  /\ ret.op = "get_workflow_statistics"
  /\ ret.value # <<>>
  /\ Len(StatsNodes) = 3
  /\ StatsNodes[1].status = COMPLETED
  /\ StatsNodes[2].status = IN_PROGRESS
  /\ StatsNodes[3].status = PENDING
  /\ ret.value[1].total_nodes = 3
  /\ ret.value[1].completed_nodes = 1
  /\ ret.value[1].in_progress_nodes = 1
  /\ ret.value[1].pending_nodes = 1
  /\ ret.value[1].rejected_nodes = 0
  /\ ret.value[1].progress_percentage = 3333
  /\ ~ret.value[1].is_complete

====
